---------------------------- MODULE Spec2Model ----------------------------
(***************************************************************************)
(* A model of the serializer package: schema derivation (derive_fields,    *)
(* _add_field), the record membrane (Serializable.__init__, __setattr__,   *)
(* __delattr__, serialize_), the bounded list (_List), the Integer coercer *)
(* and the Range record.                                                   *)
(***************************************************************************)
EXTENDS Integers, Sequences, FiniteSets, TLC

VARIABLES
    annot,      \* per class: its own annotations, in order (never changes)
    decl,       \* per class: the defaults stored on it when it was declared
    active,     \* the classes the program instantiates
    clsDict,    \* per class: the defaults currently stored in its namespace
    cache,      \* per class: its __serializable__ entry
    derived,    \* the classes whose schema was derived, in the order of derivation
    x,          \* the record instance under observation
    last,       \* the last record operation and its outcome
    rt,         \* the last serialize / reconstruct round trip
    lcfg,       \* the List coercer's settings
    lst,        \* the _List instance
    llast,      \* the last list operation and its outcome
    icfg,       \* the Integer coercer's construction arguments
    ilast,      \* the last Integer coercion and its outcome
    iso,        \* the last parse of an ISO range text and its outcome
    ord,        \* the last class ordering computed and the graph it was computed over
    thr,        \* per thread: its position in derive_fields and its local variables
    cal         \* the last duration arithmetic on a date and its outcome

progVars == <<annot, decl, active>>
recVars == <<annot, decl, active, clsDict, cache, derived, x, last, rt>>
listVars == <<lcfg, lst, llast>>
intVars == <<icfg, ilast>>
isoVars == <<iso>>
ordVars == <<ord>>
thrVars == <<thr>>
calVars == <<cal>>
vars == <<annot, decl, active, clsDict, cache, derived, x, last, rt, lcfg, lst, llast, icfg, ilast, iso, ord, thr, cal>>

-----------------------------------------------------------------------------
(* Bounds *)

\* integer inputs range over -MaxVal..MaxVal
MaxVal == 1
\* list inputs and stores hold at most MaxLen elements
MaxLen == 3
\* the bounds of an Integer coercer range over -IntBound..IntBound
IntBound == 2
\* a second is divided into SubSecond ticks (the microseconds of a datetime)
SubSecond == 2
\* the components of a duration range over 0..MaxDur
MaxDur == 1
\* a construction takes at most MaxArgs positional arguments
MaxArgs == 3

-----------------------------------------------------------------------------
(* Values.  A value is a tagged record so that values of every Python kind  *)
(* are comparable: "int" n is the integer n, "str" n is the decimal text of *)
(* n, "txt" n is a text that is not a number, "bool" n is True (1) or False *)
(* (0), "none" is None.  The texts "False", "True" and "None" are "txt" 10,  *)
(* 11 and 20, and the empty text is "txt" 0.                                *)

IntV(n) == [k |-> "int", n |-> n]
StrV(n) == [k |-> "str", n |-> n]
TxtV(n) == [k |-> "txt", n |-> n]
BoolV(n) == [k |-> "bool", n |-> n]
NoneV == [k |-> "none", n |-> 0]

\* the outcome of a call: a value, or the kind of the exception raised
Ok(v) == [err |-> "ok", v |-> v]
Raise(e) == [err |-> e, v |-> NoneV]

\* str(value)
PyStr(v) ==
    CASE v.k = "int" -> StrV(v.n)
      [] v.k = "str" -> v
      [] v.k = "txt" -> v
      [] v.k = "bool" -> TxtV(10 + v.n)
      [] OTHER -> TxtV(20)

\* SerializerType.__call__: the value, untouched
PassthroughCall(v) == Ok(v)

\* Integer.__call__ of a coercer with bounds minimum and maximum (None: no
\* bound): the text form must be an optional sign followed by digits
Integer__call__(minimum, maximum, v) ==
    IF PyStr(v).k # "str" THEN Raise("ValueError")
    ELSE IF minimum # NoneV /\ PyStr(v).n < minimum.n THEN Raise("ValueError")
    ELSE IF maximum # NoneV /\ PyStr(v).n > maximum.n THEN Raise("ValueError")
    ELSE Ok(IntV(PyStr(v).n))

\* Integer.__init__(minimum, maximum, name) given the keywords minimum and
\* maximum, and force when force is not "unset": the signature has no
\* parameter called force, and the call raises TypeError for it
Integer__init__(minimum, maximum, force) ==
    IF force # "unset" THEN [err |-> "TypeError", min |-> NoneV, max |-> NoneV]
    ELSE [err |-> "ok", min |-> minimum, max |-> maximum]

\* the Integer of an int annotation
IntegerCall(v) == Integer__call__(NoneV, NoneV, v)

\* String.__call__ with no length bounds
StringCall(v) == Ok(PyStr(v))

\* Boolean.__call__
BooleanCall(v) ==
    IF v = TxtV(11) THEN Ok(BoolV(1))
    ELSE IF (v.k \in {"int", "str", "bool"}) /\ v.n = 1 THEN Ok(BoolV(1))
    ELSE IF v = TxtV(10) THEN Ok(BoolV(0))
    ELSE IF (v.k \in {"int", "str", "bool"}) /\ v.n = 0 THEN Ok(BoolV(0))
    ELSE Raise("ValueError")

\* field.type(value)
Coerce(type_, v) ==
    CASE type_ = "Integer" -> IntegerCall(v)
      [] type_ = "String" -> StringCall(v)
      [] type_ = "Boolean" -> BooleanCall(v)
      [] OTHER -> PassthroughCall(v)

\* field.type.serialize(value): every coercer modelled here inherits
\* SerializerType.serialize
Serialize(type_, v) == v

-----------------------------------------------------------------------------
(* Classes.  The program's classes form a diamond, A <- B, A <- C,          *)
(* D(B, C), plus Range.  Serializable and object stand above A and Range;   *)
(* they carry no annotations and contribute nothing to any schema, so the   *)
(* walk over the bases stops at A and Range.                                *)

Classes == {"A", "B", "C", "D", "Range"}

\* cls.__bases__, in declaration order
ClassBases ==
    [A |-> <<>>, B |-> <<"A">>, C |-> <<"A">>, D |-> <<"B", "C">>, Range |-> <<>>]

\* cls.__mro__: the order in which hasattr / getattr look a name up
Mro ==
    [A |-> <<"A">>, B |-> <<"B", "A">>, C |-> <<"C", "A">>,
     D |-> <<"D", "B", "C", "A">>, Range |-> <<"Range">>]

FieldNames ==
    {"f", "g", "lower_bound", "upper_bound", "is_lower_exclusive", "is_upper_exclusive"}

\* What a class namespace stores under a field name: nothing, one of the
\* marker classes, a ReadOnly(v) instance, or a literal v.
NoAttr == [m |-> "absent", v |-> NoneV]
ReadOnly == [m |-> "ReadOnly", v |-> NoneV]
ReadOnlyOf(v) == [m |-> "ReadOnlyOf", v |-> v]
Optional == [m |-> "Optional", v |-> NoneV]
OptionalReadOnly == [m |-> "OptionalReadOnly", v |-> NoneV]
Lit(v) == [m |-> "Lit", v |-> v]
PyNone == Lit(NoneV)

SeqRange(s) == {s[i] : i \in 1..Len(s)}

\* hasattr(cls, nam)
ClsHasAttr(dict, cls, nam) == \E i \in 1..Len(Mro[cls]) : dict[Mro[cls][i]][nam] # NoAttr

\* getattr(cls, nam), when hasattr(cls, nam)
ClsGetAttr(dict, cls, nam) ==
    LET i == CHOOSE i \in 1..Len(Mro[cls]) :
                 /\ dict[Mro[cls][i]][nam] # NoAttr
                 /\ \A j \in 1..(i - 1) : dict[Mro[cls][j]][nam] = NoAttr
    IN dict[Mro[cls][i]][nam]

-----------------------------------------------------------------------------
(* Schemas.  A schema is the ordered dict of AnnotatedField tuples: a      *)
(* sequence of fields with distinct names, in insertion order.             *)

AnnotatedField(nam, type_, req, ro, const, hasd, dflt) ==
    [name |-> nam, type |-> type_, is_required |-> req, is_readonly |-> ro,
     is_constant |-> const, has_default |-> hasd, default |-> dflt]

Names(fields) == {fields[i].name : i \in 1..Len(fields)}

FieldOf(fields, nam) == fields[CHOOSE i \in 1..Len(fields) : fields[i].name = nam]

\* fields[nam] = field: an existing key keeps its position
DictPut(fields, field) ==
    IF field.name \in Names(fields)
    THEN [i \in 1..Len(fields) |->
             IF fields[i].name = field.name THEN field ELSE fields[i]]
    ELSE Append(fields, field)

\* fields.update(other)
RECURSIVE DictUpdate(_, _)
DictUpdate(fields, other) ==
    IF other = <<>> THEN fields
    ELSE DictUpdate(DictPut(fields, Head(other)), Tail(other))

\* get_type: the coercer of a declared shape
get_type(typ) ==
    CASE typ = "int" -> "Integer"
      [] typ = "str" -> "String"
      [] typ = "bool" -> "Boolean"
      [] OTHER -> "Passthrough"

\* type(dflt), for the default of a Constant field
TypeOfDefault(dflt) ==
    IF dflt.m = "Lit"
    THEN CASE dflt.v.k = "int" -> "int"
           [] dflt.v.k \in {"str", "txt"} -> "str"
           [] dflt.v.k = "bool" -> "bool"
           [] OTHER -> "NoneType"
    ELSE IF dflt.m = "ReadOnlyOf" THEN "ReadOnly" ELSE "type"

\* an _add_field that takes a Constant without default for a required field
_add_field_no_raise(fields, nam, typ, dflt) ==
    LET const == (typ = "Constant")
        type_ == get_type(IF const THEN TypeOfDefault(dflt) ELSE typ)
    IN [err |-> "ok",
        fields |-> DictPut(fields,
                       IF dflt # PyNone /\ dflt.m = "Lit"
                       THEN AnnotatedField(nam, type_, FALSE, const, const, TRUE, dflt.v)
                       ELSE AnnotatedField(nam, type_, TRUE, const, const, FALSE, NoneV))]

\* _add_field: classify one field from its declared shape and its default
\* (PyNone when there is none) and put it into fields
_add_field(fields, nam, typ, dflt) ==
    IF typ = "Constant" /\ dflt = PyNone
    THEN [err |-> "ConstantMissingDefault", fields |-> fields]
    ELSE LET const == (typ = "Constant")
             type_ == get_type(IF const THEN TypeOfDefault(dflt) ELSE typ)
             field ==
                 IF dflt # PyNone
                 THEN CASE dflt = ReadOnly ->
                               AnnotatedField(nam, type_, TRUE, TRUE, const, FALSE, NoneV)
                        [] dflt.m = "ReadOnlyOf" ->
                               AnnotatedField(nam, type_, FALSE, TRUE, const, TRUE, dflt.v)
                        [] dflt = Optional ->
                               AnnotatedField(nam, type_, FALSE, const, const, FALSE, NoneV)
                        [] dflt = OptionalReadOnly ->
                               AnnotatedField(nam, type_, FALSE, TRUE, const, FALSE, NoneV)
                        [] OTHER ->
                               AnnotatedField(nam, type_, FALSE, const, const, TRUE, dflt.v)
                 ELSE AnnotatedField(nam, type_, TRUE, const, const, FALSE, NoneV)
         IN [err |-> "ok", fields |-> DictPut(fields, field)]

\* bases(start_class): the classes of the hierarchy, right most superclass
\* first, from the top down, each once.  graph gives each class's __bases__.
AddKey(result, cls) == IF cls \in SeqRange(result) THEN result ELSE Append(result, cls)

RECURSIVE search(_, _, _), searchBases(_, _, _, _)
search(graph, cls, result) ==
    AddKey(searchBases(graph, cls, Len(graph[cls]), result), cls)

searchBases(graph, cls, i, result) ==
    IF i = 0 THEN result
    ELSE searchBases(graph, cls, i - 1,
             AddKey(search(graph, graph[cls][i], result), graph[cls][i]))

bases(start_class) == search(ClassBases, start_class, <<>>)

\* a derivation that consumes the defaults of every class it walks over
ShouldDeleteAlways(cls, class_) == TRUE

\* a derivation that consumes no stored default
ShouldDeleteNever(cls, class_) == FALSE

\* line 287: only the class being derived loses its stored defaults
ShouldDelete(cls, class_) == cls = class_

\* The loop over one class's own annotations (lines 284-292), from the j-th
\* on.  st is [fields, dict, err, scanned]; the loop stops at the first
\* error.  scanned lists the classes whose annotations were parsed.
RECURSIVE DeriveAnnotations(_, _, _, _)
DeriveAnnotations(cls, class_, j, st) ==
    IF j > Len(annot[cls]) \/ st.err # "ok" THEN st
    ELSE LET nam == annot[cls][j].name
             typ == annot[cls][j].typ
             has == ClsHasAttr(st.dict, cls, nam)
             dflt == IF has THEN ClsGetAttr(st.dict, cls, nam) ELSE PyNone
             del == has /\ ShouldDelete(cls, class_)
         IN IF del /\ st.dict[cls][nam] = NoAttr
            THEN \* delattr of a name found on an ancestor only
                 [st EXCEPT !.err = "AttributeError"]
            ELSE LET dict2 == IF del THEN [st.dict EXCEPT ![cls][nam] = NoAttr]
                                     ELSE st.dict
                     r == _add_field(st.fields, nam, typ, dflt)
                 IN DeriveAnnotations(cls, class_, j + 1,
                        [st EXCEPT !.fields = r.fields, !.dict = dict2, !.err = r.err])

\* a loop over bases(class_) that parses every class, cached or not
RECURSIVE DeriveClassesNoCache(_, _, _, _, _)
DeriveClassesNoCache(order, class_, i, cch, st) ==
    IF i > Len(order) \/ st.err # "ok" THEN st
    ELSE LET cls == order[i]
         IN DeriveClassesNoCache(order, class_, i + 1, cch,
                DeriveAnnotations(cls, class_, 1,
                    [st EXCEPT !.scanned = Append(st.scanned, cls)]))

\* The loop over bases(class_) (lines 280-292), from the i-th class on
RECURSIVE DeriveClasses(_, _, _, _, _)
DeriveClasses(order, class_, i, cch, st) ==
    IF i > Len(order) \/ st.err # "ok" THEN st
    ELSE LET cls == order[i]
         IN DeriveClasses(order, class_, i + 1, cch,
                IF cch[cls].cached
                THEN [st EXCEPT !.fields = DictUpdate(st.fields, cch[cls].fields)]
                ELSE DeriveAnnotations(cls, class_, 1,
                         [st EXCEPT !.scanned = Append(st.scanned, cls)]))

NoCache == [cached |-> FALSE, fields |-> <<>>]

\* derive_fields(class_): the schema of class_, the class namespaces and the
\* caches it leaves behind, or the error it raises, and the classes whose
\* annotations it parsed
derive_fields(class_, dict, cch) ==
    IF cch[class_].cached
    THEN [err |-> "ok", fields |-> cch[class_].fields, dict |-> dict, cache |-> cch,
          scanned |-> <<>>]
    ELSE LET st == DeriveClasses(bases(class_), class_, 1, cch,
                       [fields |-> <<>>, dict |-> dict, err |-> "ok", scanned |-> <<>>])
         IN IF st.err = "ok"
            THEN [err |-> "ok", fields |-> st.fields, dict |-> st.dict,
                  cache |-> [cch EXCEPT ![class_] = [cached |-> TRUE, fields |-> st.fields]],
                  scanned |-> st.scanned]
            ELSE [err |-> st.err, fields |-> <<>>, dict |-> st.dict, cache |-> cch,
                  scanned |-> st.scanned]

-----------------------------------------------------------------------------
(* The record membrane.  An instance's __dict__ is a function from the     *)
(* names it holds to their values.                                         *)

EmptyStore == [n \in {} |-> NoneV]

StorePut(store, nam, v) ==
    [n \in DOMAIN store \cup {nam} |-> IF n = nam THEN v ELSE store[n]]

StoreDel(store, nam) == [n \in DOMAIN store \ {nam} |-> store[n]]

\* a _setattr that hands every value, None too, to the coercer
_setattr_coerce_none(store, field, value) ==
    LET r == Coerce(field.type, value)
    IN IF r.err = "ok"
       THEN [err |-> "ok", store |-> StorePut(store, field.name, r.v)]
       ELSE [err |-> r.err, store |-> store]

\* _setattr(field, value): the store it leaves, or the coercer's error
_setattr(store, field, value) ==
    IF ~field.is_required /\ value = NoneV
    THEN [err |-> "ok", store |-> StoreDel(store, field.name)]
    ELSE LET r == Coerce(field.type, value)
         IN IF r.err = "ok"
            THEN [err |-> "ok", store |-> StorePut(store, field.name, r.v)]
            ELSE [err |-> r.err, store |-> store]

\* _adjust_args_and_kwargs with _handle_string_arg: a single text argument
\* is decoded as JSON when it is JSON (the decimal text of n becomes n);
\* any other text stays one positional argument, also after Range's split
\* on ",", which the texts modelled here do not contain
_adjust_args_and_kwargs(args, kwargs) ==
    IF DOMAIN kwargs = {} /\ Len(args) = 1 /\ args[1].k = "str"
    THEN <<IntV(args[1].n)>>
    ELSE args

\* an _after_init that tests the bounds for truth, so that 0 counts as unset
_after_init_truthy(cls, store) ==
    IF cls # "Range" THEN "ok"
    ELSE LET lower == IF "lower_bound" \in DOMAIN store THEN store["lower_bound"] ELSE NoneV
             upper == IF "upper_bound" \in DOMAIN store THEN store["upper_bound"] ELSE NoneV
             unset(b) == b = NoneV \/ b = IntV(0)
         IN IF unset(lower) /\ unset(upper) THEN "ValueError"
            ELSE IF ~unset(lower) /\ ~unset(upper) /\ lower.n > upper.n THEN "ValueError"
            ELSE "ok"

\* Range._after_init, and the no-op of every other class
_after_init(cls, store) ==
    IF cls # "Range" THEN "ok"
    ELSE LET lower == IF "lower_bound" \in DOMAIN store THEN store["lower_bound"] ELSE NoneV
             upper == IF "upper_bound" \in DOMAIN store THEN store["upper_bound"] ELSE NoneV
         IN IF lower = NoneV /\ upper = NoneV THEN "ValueError"
            ELSE IF lower # NoneV /\ upper # NoneV /\ lower.n > upper.n THEN "ValueError"
            ELSE "ok"

\* a binding of the positional arguments that starts at the last of them
ArgsToKwargsReversed(fields, args, kwargs) ==
    [n \in DOMAIN kwargs \cup {fields[i].name : i \in 1..Len(args)} |->
        IF \E i \in 1..Len(args) : fields[i].name = n
        THEN args[Len(args) + 1 - (CHOOSE i \in 1..Len(args) : fields[i].name = n)]
        ELSE kwargs[n]]

\* lines 90-93: the positional arguments become keywords
ArgsToKwargs(fields, args, kwargs) ==
    [n \in DOMAIN kwargs \cup {fields[i].name : i \in 1..Len(args)} |->
        IF \E i \in 1..Len(args) : fields[i].name = n
        THEN args[CHOOSE i \in 1..Len(args) : fields[i].name = n]
        ELSE kwargs[n]]

\* a field check that lets a constant field be supplied
FieldCheckNoConstant(field, kwargs) ==
    IF field.is_required /\ ~field.has_default /\ field.name \notin DOMAIN kwargs
    THEN "RequiredAttribute"
    ELSE "ok"

\* a field check that asks for a required field only when it is read-only
FieldCheckNoRequired(field, kwargs) ==
    IF field.is_required /\ field.is_readonly /\ ~field.has_default
       /\ field.name \notin DOMAIN kwargs
    THEN "RequiredAttribute"
    ELSE IF field.is_constant /\ field.name \in DOMAIN kwargs
    THEN "ReadOnlyField"
    ELSE "ok"

\* lines 100-110, for one field: the error it raises, if any
FieldCheck(field, kwargs) ==
    IF field.is_required /\ ~field.has_default /\ field.name \notin DOMAIN kwargs
    THEN "RequiredAttribute"
    ELSE IF field.is_constant /\ field.name \in DOMAIN kwargs
    THEN "ReadOnlyField"
    ELSE "ok"

\* lines 100-110: the first error of the fields, in schema order
FieldChecks(fields, kwargs) ==
    IF \A i \in 1..Len(fields) : FieldCheck(fields[i], kwargs) = "ok" THEN "ok"
    ELSE FieldCheck(fields[CHOOSE i \in 1..Len(fields) :
                               /\ FieldCheck(fields[i], kwargs) # "ok"
                               /\ \A j \in 1..(i - 1) : FieldCheck(fields[j], kwargs) = "ok"],
                    kwargs)

\* lines 108-110: the defaults of the fields left unsupplied
WithDefaults(fields, kwargs) ==
    [n \in DOMAIN kwargs \cup {fields[i].name : i \in {j \in 1..Len(fields) : fields[j].has_default}} |->
        IF n \in DOMAIN kwargs THEN kwargs[n] ELSE FieldOf(fields, n).default]

\* lines 112-114: _setattr of every supplied field, in schema order, from
\* the i-th field on; st is [err, store]
RECURSIVE SetFields(_, _, _, _)
SetFields(fields, kwargs, i, st) ==
    IF i > Len(fields) \/ st.err # "ok" THEN st
    ELSE SetFields(fields, kwargs, i + 1,
             IF fields[i].name \in DOMAIN kwargs
             THEN _setattr(st.store, fields[i], kwargs[fields[i].name])
             ELSE st)

\* Serializable.__init__ on a class whose schema is fields
__init__(cls, fields, args0, kwargs0, ignore_extra_) ==
    LET args == _adjust_args_and_kwargs(args0, kwargs0)
        Fail(e) == [err |-> e, store |-> EmptyStore]
    IN IF Len(args) > Len(fields) THEN Fail("ExtraAttribute")
       ELSE IF \E i \in 1..Len(args) : fields[i].name \in DOMAIN kwargs0
       THEN Fail("DuplicateAttribute")
       ELSE LET kwargs == ArgsToKwargs(fields, args, kwargs0)
            IN IF ~ignore_extra_ /\ \E n \in DOMAIN kwargs : n \notin Names(fields)
               THEN Fail("UndefinedAttribute")
               ELSE IF FieldChecks(fields, kwargs) # "ok"
               THEN Fail(FieldChecks(fields, kwargs))
               ELSE LET st == SetFields(fields, WithDefaults(fields, kwargs), 1,
                                  [err |-> "ok", store |-> EmptyStore])
                    IN IF st.err # "ok" THEN Fail(st.err)
                       ELSE IF _after_init(cls, st.store) # "ok"
                       THEN Fail(_after_init(cls, st.store))
                       ELSE st

\* a __setattr__ that protects constant fields only
__setattr__constant_only(fields, store, name, value) ==
    IF name \notin Names(fields) THEN [err |-> "UndefinedAttribute", store |-> store]
    ELSE IF FieldOf(fields, name).is_constant THEN [err |-> "ReadOnlyField", store |-> store]
    ELSE _setattr(store, FieldOf(fields, name), value)

\* a __setattr__ that stores a value under a name the schema does not have
__setattr__any_name(fields, store, name, value) ==
    IF name \notin Names(fields) THEN [err |-> "ok", store |-> StorePut(store, name, value)]
    ELSE IF FieldOf(fields, name).is_readonly THEN [err |-> "ReadOnlyField", store |-> store]
    ELSE _setattr(store, FieldOf(fields, name), value)

\* Serializable.__setattr__
__setattr__(fields, store, name, value) ==
    IF name \notin Names(fields) THEN [err |-> "UndefinedAttribute", store |-> store]
    ELSE IF FieldOf(fields, name).is_readonly THEN [err |-> "ReadOnlyField", store |-> store]
    ELSE _setattr(store, FieldOf(fields, name), value)

\* Serializable.__delattr__
__delattr__(fields, store, name) ==
    IF name \notin Names(fields) THEN [err |-> "UndefinedAttribute", store |-> store]
    ELSE IF FieldOf(fields, name).is_readonly THEN [err |-> "ReadOnlyField", store |-> store]
    ELSE IF name \notin DOMAIN store THEN [err |-> "KeyError", store |-> store]
    ELSE [err |-> "ok", store |-> StoreDel(store, name)]

\* object.__getattribute__: the instance's own value, then the class
\* attribute the MRO finds
PlainGetAttribute(dict, cls, store, name) ==
    IF name \in DOMAIN store THEN Ok(store[name])
    ELSE IF name \in FieldNames /\ ClsHasAttr(dict, cls, name)
    THEN Ok(ClsGetAttr(dict, cls, name).v)
    ELSE Raise("AttributeError")

\* a __getattribute__ without the check of the schema
__getattribute__plain(fields, dict, cls, store, name) ==
    PlainGetAttribute(dict, cls, store, name)

\* Serializable.__getattribute__
__getattribute__(fields, dict, cls, store, name) ==
    IF name \in Names(fields)
    THEN IF name \in DOMAIN store THEN Ok(store[name]) ELSE Raise("AttributeError")
    ELSE PlainGetAttribute(dict, cls, store, name)

\* Serializable.serialize_
serialize_(fields, store) ==
    [n \in Names(fields) \cap DOMAIN store |-> Serialize(FieldOf(fields, n).type, store[n])]

-----------------------------------------------------------------------------
(* Programs.  A program declares its classes (annotations and stored       *)
(* defaults) and then constructs, mutates and serializes instances.        *)

Annotation(nam, typ) == [name |-> nam, typ |-> typ]

\* the ways a field is declared: its shape and the default stored with it
DeclKinds ==
    {[typ |-> "int", dflt |-> NoAttr],
     [typ |-> "int", dflt |-> ReadOnly],
     [typ |-> "int", dflt |-> ReadOnlyOf(IntV(1))],
     [typ |-> "int", dflt |-> Optional],
     [typ |-> "int", dflt |-> OptionalReadOnly],
     [typ |-> "int", dflt |-> Lit(IntV(1))],
     [typ |-> "str", dflt |-> Lit(TxtV(1))],
     [typ |-> "Constant", dflt |-> Lit(IntV(1))]}

\* class A declares f and g, each in any of the ways; no other class is used
RecordPrograms ==
    {[annot |-> [c \in Classes |->
                    IF c = "A" THEN <<Annotation("f", kf.typ), Annotation("g", kg.typ)>>
                    ELSE <<>>],
      decl |-> [c \in Classes |-> [n \in FieldNames |->
                    IF c = "A" /\ n = "f" THEN kf.dflt
                    ELSE IF c = "A" /\ n = "g" THEN kg.dflt
                    ELSE NoAttr]],
      active |-> {"A"}] : kf \in DeclKinds, kg \in DeclKinds}

\* the default class c stores for g in a hierarchy program
HierDefault == [A |-> 10, B |-> 11, C |-> 12, D |-> 13, Range |-> 0]

\* class A declares g: int with a default; each of B, C and D redeclares it
\* with a default of its own, or does not
HierarchyPrograms ==
    {[annot |-> [c \in Classes |->
                    IF c = "A" \/ c \in redecl THEN <<Annotation("g", "int")>> ELSE <<>>],
      decl |-> [c \in Classes |-> [n \in FieldNames |->
                    IF (c = "A" \/ c \in redecl) /\ n = "g" THEN Lit(IntV(HierDefault[c]))
                    ELSE NoAttr]],
      active |-> {"A", "B", "C", "D"}] : redecl \in SUBSET {"B", "C", "D"}}

\* range_types.Range (lines 25-28)
RangePrograms ==
    {[annot |-> [c \in Classes |->
                    IF c = "Range"
                    THEN <<Annotation("lower_bound", "int"), Annotation("upper_bound", "int"),
                           Annotation("is_lower_exclusive", "bool"),
                           Annotation("is_upper_exclusive", "bool")>>
                    ELSE <<>>],
      decl |-> [c \in Classes |-> [n \in FieldNames |->
                    IF c # "Range" THEN NoAttr
                    ELSE IF n \in {"lower_bound", "upper_bound"} THEN Optional
                    ELSE IF n \in {"is_lower_exclusive", "is_upper_exclusive"}
                    THEN Lit(BoolV(0))
                    ELSE NoAttr]],
      active |-> {"Range"}]}

\* the names a program can mention: those it declares, and an undeclared one
DeclaredNames == UNION {{annot[c][i].name : i \in 1..Len(annot[c])} : c \in Classes}
InputNames == DeclaredNames \cup {"zz"}

\* the values a program supplies for a name
InputValues == {IntV(n) : n \in 0..MaxVal} \cup {TxtV(1), NoneV}

InputsFor(name) ==
    IF name = "zz" THEN {IntV(1)}
    ELSE IF name \in {"is_lower_exclusive", "is_upper_exclusive"} THEN {BoolV(1), TxtV(1)}
    ELSE InputValues

\* keyword arguments: some of the names, each with a value
KwargsOver(names) ==
    {k \in UNION {[S -> InputValues \cup {BoolV(1)}] : S \in SUBSET names} :
        \A n \in DOMAIN k : k[n] \in InputsFor(n)}

NoLast ==
    [op |-> "none", cls |-> "A", args |-> <<>>, kwargs |-> EmptyStore, ign |-> FALSE,
     name |-> "", val |-> NoneV, err |-> "ok"]

NoInstance == [live |-> FALSE, cls |-> "A", store |-> EmptyStore]

NoRoundTrip == [done |-> FALSE, src |-> EmptyStore, err |-> "ok", dst |-> EmptyStore]

\* the list and Integer parts, idle
NoListOp == [op |-> "none", key |-> [kind |-> "index", a |-> 0, b |-> 0, step |-> 1],
             val |-> NoneV, input |-> [kind |-> "list", items |-> <<>>], err |-> "ok"]

ListIdle ==
    /\ lcfg = [min |-> 0, max |-> 0, allow_dups |-> TRUE]
    /\ lst = [live |-> FALSE, store |-> <<>>]
    /\ llast = NoListOp

NoIntOp == [op |-> "none", min |-> NoneV, max |-> NoneV, force |-> "unset",
            val |-> NoneV, err |-> "ok", res |-> NoneV]

IntIdle ==
    /\ icfg = [live |-> FALSE, min |-> NoneV, max |-> NoneV]
    /\ ilast = NoIntOp

\* a duration of nothing, and the ISO range part, idle
NoDuration == [years |-> 0, months |-> 0, weeks |-> 0, days |-> 0, hours |-> 0,
               minutes |-> 0, seconds |-> 0]

NoIso == [op |-> "none", parts |-> <<>>, now |-> 0, err |-> "ok", lower |-> 0, upper |-> 0]

IsoIdle == iso = NoIso

NoCal == [op |-> "none", ts |-> [year |-> 0, month |-> 0, day |-> 0], d |-> NoDuration, first |-> [year |-> 0, month |-> 0], result |-> 0]

CalIdle == cal = NoCal

\* the threads of a concurrent host, and a thread that has not called
\* derive_fields yet
Threads == {1, 2}

NoThread == [pc |-> "idle", class_ |-> "", i |-> 0, j |-> 0, dflt |-> NoAttr,
             fields |-> <<>>, err |-> "ok"]

NoThr == [t \in Threads |-> NoThread]

ThrIdle == thr = NoThr

NoOrd == [op |-> "none", graph |-> <<>>, start |-> 0, order |-> <<>>]

OrdIdle == ord = NoOrd

RecordIdle ==
    /\ annot = [c \in Classes |-> <<>>]
    /\ decl = [c \in Classes |-> [n \in FieldNames |-> NoAttr]]
    /\ active = {}
    /\ clsDict = decl
    /\ cache = [c \in Classes |-> NoCache]
    /\ derived = <<>>
    /\ x = NoInstance
    /\ last = NoLast
    /\ rt = NoRoundTrip

InitProgram(p) ==
    /\ annot = p.annot
    /\ decl = p.decl
    /\ active = p.active
    /\ clsDict = p.decl
    /\ cache = [c \in Classes |-> NoCache]
    /\ derived = <<>>
    /\ x = NoInstance
    /\ last = NoLast
    /\ rt = NoRoundTrip
    /\ ListIdle
    /\ IntIdle
    /\ IsoIdle
    /\ CalIdle
    /\ ThrIdle
    /\ OrdIdle

\* x = cls(*args, ignore_extra_=ign, **kwargs): the first use of a class
\* derives its schema; a failed construction leaves x as it was
Construct(cls, args, kwargs, ign) ==
    LET d == derive_fields(cls, clsDict, cache)
        r == IF d.err = "ok" THEN __init__(cls, d.fields, args, kwargs, ign)
             ELSE [err |-> d.err, store |-> EmptyStore]
    IN /\ clsDict' = d.dict
       /\ cache' = d.cache
       /\ derived' = IF d.cache[cls].cached /\ ~cache[cls].cached THEN Append(derived, cls)
                     ELSE derived
       /\ x' = IF r.err = "ok" THEN [live |-> TRUE, cls |-> cls, store |-> r.store] ELSE x
       /\ last' = [op |-> "init", cls |-> cls, args |-> args, kwargs |-> kwargs, ign |-> ign,
                   name |-> "", val |-> NoneV, err |-> r.err]
       /\ rt' = NoRoundTrip
       /\ UNCHANGED <<progVars, listVars, intVars, isoVars, ordVars, thrVars, calVars>>

\* x.name = value
SetAttr(name, value) ==
    /\ x.live
    /\ LET d == derive_fields(x.cls, clsDict, cache)
           r == __setattr__(d.fields, x.store, name, value)
       IN /\ x' = [x EXCEPT !.store = r.store]
          /\ last' = [NoLast EXCEPT !.op = "set", !.cls = x.cls, !.name = name,
                                    !.val = value, !.err = r.err]
    /\ rt' = NoRoundTrip
    /\ UNCHANGED <<progVars, clsDict, cache, derived, listVars, intVars, isoVars, ordVars, thrVars, calVars>>

\* del x.name
DelAttr(name) ==
    /\ x.live
    /\ LET d == derive_fields(x.cls, clsDict, cache)
           r == __delattr__(d.fields, x.store, name)
       IN /\ x' = [x EXCEPT !.store = r.store]
          /\ last' = [NoLast EXCEPT !.op = "del", !.cls = x.cls, !.name = name, !.err = r.err]
    /\ rt' = NoRoundTrip
    /\ UNCHANGED <<progVars, clsDict, cache, derived, listVars, intVars, isoVars, ordVars, thrVars, calVars>>

\* type(x)(**x.serialize_()), for the instance x just constructed
RoundTrip ==
    /\ x.live
    /\ last.op = "init" /\ last.err = "ok"
    /\ ~rt.done
    /\ LET d == derive_fields(x.cls, clsDict, cache)
           r == __init__(x.cls, d.fields, <<>>, serialize_(d.fields, x.store), FALSE)
       IN rt' = [done |-> TRUE, src |-> x.store, err |-> r.err, dst |-> r.store]
    /\ UNCHANGED <<progVars, clsDict, cache, derived, x, last, listVars, intVars, isoVars, ordVars, thrVars, calVars>>

\* The program's first construction takes any arguments; it then mutates
\* and serializes the instance, and constructs further instances.
NextRecord ==
    \/ /\ last.op = "none"
       /\ \E cls \in active, n \in 0..1, ign \in BOOLEAN :
              \E args \in [1..n -> InputValues \cup {StrV(1)}], kwargs \in KwargsOver(InputNames) :
                  Construct(cls, args, kwargs, ign)
    \/ /\ last.op # "none"
       /\ \E cls \in active, kwargs \in [DeclaredNames \cap {"f", "g", "lower_bound"} -> {IntV(1)}] \cup {EmptyStore} :
              Construct(cls, <<>>, kwargs, FALSE)
    \/ \E name \in InputNames : \E value \in InputsFor(name) \cup {NoneV} : SetAttr(name, value)
    \/ \E name \in InputNames : DelAttr(name)
    \/ RoundTrip

InitRecord == \E p \in RecordPrograms : InitProgram(p)
InitHierarchy == \E p \in HierarchyPrograms : InitProgram(p)
InitRange == \E p \in RangePrograms : InitProgram(p)

SpecRecord == InitRecord /\ [][NextRecord]_vars
SpecHierarchy == InitHierarchy /\ [][NextRecord]_vars
SpecRange == InitRange /\ [][NextRecord]_vars

-----------------------------------------------------------------------------
(* What a program's declarations say of a field, read off the markers      *)
(* (defaults.py) and not off the derived schema.                           *)

Declares(cls, n) == \E i \in 1..Len(annot[cls]) : annot[cls][i].name = n
DeclaredType(cls, n) == annot[cls][CHOOSE i \in 1..Len(annot[cls]) : annot[cls][i].name = n].typ
IsConstantDecl(cls, n) == Declares(cls, n) /\ DeclaredType(cls, n) = "Constant"
IsReadOnlyDecl(cls, n) ==
    /\ Declares(cls, n)
    /\ \/ DeclaredType(cls, n) = "Constant"
       \/ decl[cls][n].m \in {"ReadOnly", "ReadOnlyOf", "OptionalReadOnly"}
IsRequiredDecl(cls, n) ==
    Declares(cls, n) /\ DeclaredType(cls, n) # "Constant" /\ decl[cls][n] \in {NoAttr, ReadOnly}

\* the field a single positional argument is bound to: the first field of
\* the schema, in each of the programs
FirstField ==
    IF "f" \in DeclaredNames THEN "f"
    ELSE IF "g" \in DeclaredNames THEN "g"
    ELSE "lower_bound"

\* the last construction supplied a value for n, positionally or by keyword
Supplied(n) ==
    \/ n \in DOMAIN last.kwargs
    \/ Len(last.args) = 1 /\ n = FirstField

SuppliedValue(n) == IF n \in DOMAIN last.kwargs THEN last.kwargs[n] ELSE last.args[1]

\* the last construction's arguments are bound to declared fields, once each
WellBound ==
    /\ \A n \in DOMAIN last.kwargs : Declares(last.cls, n) \/ last.ign
    /\ ~(Len(last.args) = 1 /\ FirstField \in DOMAIN last.kwargs)

\* every declared field supplied has an integer, or the text of one
ValuesValid ==
    \A n \in FieldNames :
        Declares(last.cls, n) /\ Supplied(n) => SuppliedValue(n).k \in {"int", "str"}

ValueAsInt(v) == IntV(v.n)

\* position of a declared field in its class's annotations
Position(cls, n) == CHOOSE i \in 1..Len(annot[cls]) : annot[cls][i].name = n

\* no field declared before n makes the constructor fail first
NoEarlierFailure(n) ==
    \A m \in FieldNames :
        Declares(last.cls, m) /\ Position(last.cls, m) < Position(last.cls, n) =>
            /\ ~(IsRequiredDecl(last.cls, m) /\ ~Supplied(m))
            /\ ~(IsConstantDecl(last.cls, m) /\ Supplied(m))

-----------------------------------------------------------------------------
(* C1.  For every record type and every successfully constructed instance  *)
(* x, constructing the type from x.serialize_() succeeds and yields an     *)
(* instance whose present fields and values equal those of x.              *)
C1_RoundTrip == rt.done => rt.err = "ok" /\ rt.dst = rt.src

(* C2.  When a subclass redeclares a field of its base with a new default, *)
(* every instance of either class constructed without the field holds the  *)
(* default its own class declares, whichever class was used first and      *)
(* however many instances were created.                                    *)
C2_OwnDefault ==
    last.op = "init" /\ Declares(last.cls, "g") /\ ~Supplied("g") =>
        /\ WellBound => last.err = "ok"
        /\ last.err = "ok" =>
               /\ x.cls = last.cls
               /\ "g" \in DOMAIN x.store
               /\ x.store["g"] = decl[last.cls]["g"].v

\* a base instance holds the base's default although two subclasses that
\* redeclare the field were used before the base
C2_Witness ==
    /\ last.op = "init" /\ last.cls = "A" /\ last.err = "ok" /\ ~Supplied("g")
    /\ Declares("B", "g") /\ Declares("D", "g")
    /\ derived = <<"D", "B", "A">>
    /\ x.cls = "A" /\ x.store["g"] = IntV(10)

(* C3.  A read-only field that is not constant can be supplied at          *)
(* construction; afterwards every assignment to it and every deletion of   *)
(* it fails with ReadOnlyField, and no assignment or deletion on the       *)
(* instance changes its value or its absence.                              *)
C3_ReadOnly ==
    /\ [](last.op = "init" /\ last.err = "ReadOnlyField" =>
              \E n \in FieldNames : IsConstantDecl(last.cls, n) /\ Supplied(n))
    /\ [](/\ last.op = "init" /\ WellBound /\ ValuesValid
          /\ \A n \in FieldNames : IsRequiredDecl(last.cls, n) => Supplied(n)
          /\ \A n \in FieldNames : IsConstantDecl(last.cls, n) => ~Supplied(n)
          => /\ last.err = "ok"
             /\ \A n \in FieldNames :
                    IsReadOnlyDecl(last.cls, n) /\ Supplied(n) =>
                        /\ n \in DOMAIN x.store
                        /\ x.store[n] = ValueAsInt(SuppliedValue(n)))
    /\ [](last.op \in {"set", "del"} /\ IsReadOnlyDecl(last.cls, last.name) =>
              last.err = "ReadOnlyField")
    /\ [][last'.op \in {"set", "del"} =>
              \A n \in FieldNames :
                  IsReadOnlyDecl(x.cls, n) =>
                      /\ (n \in DOMAIN x'.store) = (n \in DOMAIN x.store)
                      /\ n \in DOMAIN x.store => x'.store[n] = x.store[n]]_vars

\* an assignment to a read-only field supplied at construction was rejected
C3_Witness ==
    /\ decl["A"]["f"] = ReadOnly
    /\ last.op = "set" /\ last.name = "f" /\ last.val = IntV(1)
    /\ last.err = "ReadOnlyField"
    /\ x.live /\ "f" \in DOMAIN x.store /\ x.store["f"] = IntV(0)

(* C4.  A construction that supplies a value for a constant field,         *)
(* positionally or by keyword, fails, also when the value equals the       *)
(* field's default, and it fails with ReadOnlyField unless an earlier      *)
(* check of the constructor fails first; a construction that leaves the    *)
(* field out succeeds and the instance holds the default.                  *)
C4_Constant ==
    \A n \in FieldNames :
        last.op = "init" /\ IsConstantDecl(last.cls, n) =>
            /\ Supplied(n) =>
                   /\ last.err # "ok"
                   /\ WellBound /\ NoEarlierFailure(n) => last.err = "ReadOnlyField"
            /\ /\ ~Supplied(n) /\ WellBound /\ ValuesValid
               /\ \A m \in FieldNames : IsRequiredDecl(last.cls, m) => Supplied(m)
               /\ \A m \in FieldNames : IsConstantDecl(last.cls, m) => ~Supplied(m)
               => /\ last.err = "ok"
                  /\ n \in DOMAIN x.store
                  /\ x.store[n] = decl[last.cls][n].v

\* a constant field supplied with its own default was rejected
C4_Witness ==
    /\ last.op = "init" /\ IsConstantDecl("A", "g")
    /\ "g" \in DOMAIN last.kwargs /\ last.kwargs["g"] = decl["A"]["g"].v
    /\ last.err = "ReadOnlyField"
    /\ ~x.live

(* C5.  A construction that supplies no value for a field that is required *)
(* and has no default fails and produces no instance, with                 *)
(* RequiredAttribute unless an earlier check of the constructor fails      *)
(* first; a construction that supplies a valid value for every such field  *)
(* succeeds.                                                               *)
C5_Required ==
    /\ \A n \in FieldNames :
           last.op = "init" /\ IsRequiredDecl(last.cls, n) /\ ~Supplied(n) =>
               /\ last.err # "ok"
               /\ WellBound /\ NoEarlierFailure(n) => last.err = "RequiredAttribute"
    /\ /\ last.op = "init" /\ WellBound /\ ValuesValid
       /\ \A n \in FieldNames : IsRequiredDecl(last.cls, n) => Supplied(n)
       /\ \A n \in FieldNames : IsConstantDecl(last.cls, n) => ~Supplied(n)
       => /\ last.err = "ok"
          /\ x.live
          /\ \A n \in FieldNames :
                 IsRequiredDecl(last.cls, n) =>
                     n \in DOMAIN x.store /\ x.store[n] = ValueAsInt(SuppliedValue(n))

\* a construction without the required second field was rejected
C5_Witness ==
    /\ last.op = "init" /\ IsRequiredDecl("A", "g") /\ ~Supplied("g") /\ Supplied("f")
    /\ last.err = "RequiredAttribute"
    /\ ~x.live

\* the bound the last construction supplied under a name: None when it
\* supplied none
SuppliedBound(n) == IF Supplied(n) THEN SuppliedValue(n) ELSE NoneV

(* C10.  Constructing a Range succeeds only if at least one of lower_bound *)
(* and upper_bound is set and, when both are set, lower_bound <=           *)
(* upper_bound; a construction with neither bound, or with lower_bound >   *)
(* upper_bound, fails, with a ValueError unless its arguments are not      *)
(* bound to declared fields.  A bound equal to 0 counts as set.            *)
C10_RangeInvariant ==
    last.op = "init" /\ last.cls = "Range" =>
        LET lo == SuppliedBound("lower_bound")
            hi == SuppliedBound("upper_bound")
            bad == \/ lo = NoneV /\ hi = NoneV
                   \/ lo.k \in {"int", "str"} /\ hi.k \in {"int", "str"} /\ lo.n > hi.n
        IN /\ last.err = "ok" =>
                  /\ x.cls = "Range"
                  /\ "lower_bound" \in DOMAIN x.store \/ "upper_bound" \in DOMAIN x.store
                  /\ "lower_bound" \in DOMAIN x.store /\ "upper_bound" \in DOMAIN x.store =>
                         x.store["lower_bound"].n <= x.store["upper_bound"].n
           /\ bad => last.err # "ok"
           /\ bad /\ WellBound => last.err = "ValueError"
           /\ /\ ~bad /\ WellBound
              /\ \A n \in {"lower_bound", "upper_bound"} :
                     Supplied(n) => SuppliedValue(n).k \in {"int", "str", "none"}
              /\ \A n \in {"is_lower_exclusive", "is_upper_exclusive"} :
                     Supplied(n) => SuppliedValue(n) = BoolV(1)
              => last.err = "ok"

\* a Range whose only bound is 0 was constructed
C10_Witness ==
    /\ last.op = "init" /\ last.cls = "Range" /\ last.err = "ok"
    /\ SuppliedBound("lower_bound") = IntV(0) /\ SuppliedBound("upper_bound") = NoneV
    /\ x.live /\ x.store["lower_bound"] = IntV(0) /\ "upper_bound" \notin DOMAIN x.store

-----------------------------------------------------------------------------
(* The bounded list: List(int, min_length, max_length, allow_dups) and the *)
(* _List instance it makes.                                                *)

\* a key: an index i (a = i), or a slice a:b:step with a, b >= 0
IndexKey(i) == [kind |-> "index", a |-> i, b |-> 0, step |-> 1]
SliceKey(a, b, step) == [kind |-> "slice", a |-> a, b |-> b, step |-> step]

Min2(a, b) == IF a < b THEN a ELSE b

\* the 0-based positions a key addresses in a list of length len
Addressed(len, key) ==
    IF key.kind = "index"
    THEN {(IF key.a < 0 THEN key.a + len ELSE key.a)} \cap 0..(len - 1)
    ELSE {p \in 0..(len - 1) :
             p >= key.a /\ p < Min2(key.b, len) /\ (p - key.a) % key.step = 0}

RECURSIVE Without(_, _, _)
Without(seq, removed, p) ==
    IF p >= Len(seq) THEN <<>>
    ELSE (IF p \in removed THEN <<>> ELSE <<seq[p + 1]>>) \o Without(seq, removed, p + 1)

\* del seq[key], of a Python list: an index out of range raises IndexError
PyDel(seq, key) ==
    IF key.kind = "index" /\ Addressed(Len(seq), key) = {}
    THEN [err |-> "IndexError", store |-> seq]
    ELSE [err |-> "ok", store |-> Without(seq, Addressed(Len(seq), key), 0)]

\* an append that lets the list grow one past max_length
append_off_by_one(cfg, store, value) ==
    IF cfg.max > 0 /\ Len(store) > cfg.max THEN [err |-> "ListTooLong", store |-> store]
    ELSE LET r == IntegerCall(value)
         IN IF r.err # "ok" THEN [err |-> r.err, store |-> store]
            ELSE IF ~cfg.allow_dups /\ r.v \in SeqRange(store)
            THEN [err |-> "ListDuplicate", store |-> store]
            ELSE [err |-> "ok", store |-> Append(store, r.v)]

\* an append that stores the element before it looks for a duplicate
append_store_first(cfg, store, value) ==
    IF cfg.max > 0 /\ Len(store) = cfg.max THEN [err |-> "ListTooLong", store |-> store]
    ELSE LET r == IntegerCall(value)
         IN IF r.err # "ok" THEN [err |-> r.err, store |-> store]
            ELSE IF ~cfg.allow_dups /\ r.v \in SeqRange(store)
            THEN [err |-> "ListDuplicate", store |-> Append(store, r.v)]
            ELSE [err |-> "ok", store |-> Append(store, r.v)]

\* _List.append
append(cfg, store, value) ==
    IF cfg.max > 0 /\ Len(store) = cfg.max THEN [err |-> "ListTooLong", store |-> store]
    ELSE LET r == IntegerCall(value)
         IN IF r.err # "ok" THEN [err |-> r.err, store |-> store]
            ELSE IF ~cfg.allow_dups /\ r.v \in SeqRange(store)
            THEN [err |-> "ListDuplicate", store |-> store]
            ELSE [err |-> "ok", store |-> Append(store, r.v)]

\* lines 69-75: the appends of _List.__init__, one element at a time
RECURSIVE AppendAll(_, _, _)
AppendAll(cfg, items, st) ==
    IF items = <<>> \/ st.err # "ok" THEN st
    ELSE AppendAll(cfg, Tail(items), append(cfg, st.store, Head(items)))

\* _List.__init__: value is a list, the JSON text of a list ("json"), or
\* anything else (a text that is no JSON list, a number)
ListInit(cfg, value) ==
    IF value.kind \notin {"list", "json"} THEN [err |-> "AttributeError", store |-> <<>>]
    ELSE IF cfg.min > 0 /\ Len(value.items) < cfg.min
    THEN [err |-> "ListTooShort", store |-> <<>>]
    ELSE IF cfg.max > 0 /\ Len(value.items) > cfg.max
    THEN [err |-> "ListTooLong", store |-> <<>>]
    ELSE AppendAll(cfg, value.items, [err |-> "ok", store |-> <<>>])

\* isinstance(value, self.type) (line 94): self.type is what get_type
\* returns, a coercer instance and not a class, and isinstance raises
\* TypeError for it
IsInstanceOfCoercer(value) == Raise("TypeError")

\* _List.__setitem__
__setitem__(cfg, store, key, value) ==
    LET t == IsInstanceOfCoercer(value)
    IN IF t.err # "ok" THEN [err |-> t.err, store |-> store]
       ELSE LET r == IF t.v = BoolV(1) THEN Ok(value) ELSE IntegerCall(value)
                i == IF key.a < 0 THEN key.a + Len(store) ELSE key.a
            IN IF r.err # "ok" THEN [err |-> r.err, store |-> store]
               ELSE IF i \notin 0..(Len(store) - 1)
               THEN [err |-> "IndexError", store |-> store]
               ELSE IF ~cfg.allow_dups /\ r.v \in SeqRange(store) /\ store[i + 1] # r.v
               THEN [err |-> "ListDuplicate", store |-> store]
               ELSE [err |-> "ok", store |-> [store EXCEPT ![i + 1] = r.v]]

\* a __delitem__ whose length check takes every deletion to remove one
\* element
delitem_one_element(cfg, store, key) ==
    IF cfg.min > 0 /\ PyDel(store, key).err # "ok"
    THEN [err |-> PyDel(store, key).err, store |-> store]
    ELSE IF cfg.min > 0 /\ Len(store) - 1 < cfg.min
    THEN [err |-> "ListTooShort", store |-> store]
    ELSE PyDel(store, key)

\* _List.__delitem__: the preflight on a placeholder list, then the deletion
__delitem__(cfg, store, key) ==
    LET temp == PyDel([i \in 1..Len(store) |-> 0], key)
    IN IF cfg.min > 0 /\ temp.err # "ok" THEN [err |-> temp.err, store |-> store]
       ELSE IF cfg.min > 0 /\ Len(temp.store) < cfg.min
       THEN [err |-> "ListTooShort", store |-> store]
       ELSE PyDel(store, key)

\* the elements a program offers: integers, the text "1", a text that is
\* no number
ElementInputs == {IntV(0), IntV(1), IntV(2), StrV(1), TxtV(1)}

RECURSIVE SeqsUpTo(_, _)
SeqsUpTo(S, n) ==
    IF n = 0 THEN {<<>>}
    ELSE SeqsUpTo(S, n - 1) \cup {Append(q, e) : q \in {r \in SeqsUpTo(S, n - 1) : Len(r) = n - 1}, e \in S}

ListInputs ==
    {[kind |-> k, items |-> q] : k \in {"list", "json"}, q \in SeqsUpTo(ElementInputs, MaxLen)}
        \cup {[kind |-> "text", items |-> <<>>]}

Keys ==
    {IndexKey(i) : i \in -1..MaxLen}
        \cup {SliceKey(a, b, 1) : a \in 0..(MaxLen - 1), b \in 0..MaxLen}
        \cup {SliceKey(0, MaxLen, 2)}

InitList ==
    /\ lcfg \in [min : 0..2, max : {0, MaxLen}, allow_dups : BOOLEAN]
    /\ lst = [live |-> FALSE, store |-> <<>>]
    /\ llast = NoListOp
    /\ RecordIdle
    /\ IntIdle
    /\ IsoIdle
    /\ CalIdle
    /\ ThrIdle
    /\ OrdIdle

\* lst = List(int, ...)(value)
ListConstruct(value) ==
    /\ llast.op = "none"
    /\ LET r == ListInit(lcfg, value)
       IN /\ lst' = IF r.err = "ok" THEN [live |-> TRUE, store |-> r.store] ELSE lst
          /\ llast' = [NoListOp EXCEPT !.op = "init", !.input = value, !.err = r.err]
    /\ UNCHANGED <<lcfg, recVars, intVars, isoVars, ordVars, thrVars, calVars>>

\* lst.append(value); a list without max_length grows to MaxLen elements
ListAppend(value) ==
    /\ lst.live
    /\ lcfg.max > 0 \/ Len(lst.store) < MaxLen
    /\ LET r == append(lcfg, lst.store, value)
       IN /\ lst' = [lst EXCEPT !.store = r.store]
          /\ llast' = [NoListOp EXCEPT !.op = "append", !.val = value, !.err = r.err]
    /\ UNCHANGED <<lcfg, recVars, intVars, isoVars, ordVars, thrVars, calVars>>

\* lst[key] = value
ListSetItem(key, value) ==
    /\ lst.live
    /\ LET r == __setitem__(lcfg, lst.store, key, value)
       IN /\ lst' = [lst EXCEPT !.store = r.store]
          /\ llast' = [NoListOp EXCEPT !.op = "set", !.key = key, !.val = value, !.err = r.err]
    /\ UNCHANGED <<lcfg, recVars, intVars, isoVars, ordVars, thrVars, calVars>>

\* del lst[key]
ListDelItem(key) ==
    /\ lst.live
    /\ LET r == __delitem__(lcfg, lst.store, key)
       IN /\ lst' = [lst EXCEPT !.store = r.store]
          /\ llast' = [NoListOp EXCEPT !.op = "del", !.key = key, !.err = r.err]
    /\ UNCHANGED <<lcfg, recVars, intVars, isoVars, ordVars, thrVars, calVars>>

NextList ==
    \/ \E value \in ListInputs : ListConstruct(value)
    \/ \E value \in ElementInputs : ListAppend(value)
    \/ \E i \in 0..1, value \in {IntV(0), IntV(1)} : ListSetItem(IndexKey(i), value)
    \/ \E key \in Keys : ListDelItem(key)

SpecList == InitList /\ [][NextList]_vars

-----------------------------------------------------------------------------
(* The Integer coercer with bounds.                                        *)

BoundInputs == {IntV(n) : n \in -IntBound..IntBound} \cup {NoneV}

CallInputs ==
    {IntV(n) : n \in (-IntBound - 1)..(IntBound + 1)} \cup {StrV(1), TxtV(1), BoolV(1), NoneV}

InitInteger ==
    /\ IntIdle
    /\ RecordIdle
    /\ ListIdle
    /\ IsoIdle
    /\ CalIdle
    /\ ThrIdle
    /\ OrdIdle

\* icfg = Integer(minimum=minimum, maximum=maximum[, force=force])
IntegerNew(minimum, maximum, force) ==
    /\ LET r == Integer__init__(minimum, maximum, force)
       IN /\ icfg' = IF r.err = "ok" THEN [live |-> TRUE, min |-> r.min, max |-> r.max]
                     ELSE icfg
          /\ ilast' = [NoIntOp EXCEPT !.op = "new", !.min = minimum, !.max = maximum,
                                      !.force = force, !.err = r.err]
    /\ UNCHANGED <<recVars, listVars, isoVars, ordVars, thrVars, calVars>>

\* icfg(value)
IntegerApply(value) ==
    /\ icfg.live
    /\ LET r == Integer__call__(icfg.min, icfg.max, value)
       IN ilast' = [NoIntOp EXCEPT !.op = "call", !.min = icfg.min, !.max = icfg.max,
                                   !.val = value, !.err = r.err, !.res = r.v]
    /\ UNCHANGED <<icfg, recVars, listVars, isoVars, ordVars, thrVars, calVars>>

NextInteger ==
    \/ \E minimum \in BoundInputs, maximum \in BoundInputs, force \in {"unset", "true", "false"} :
           IntegerNew(minimum, maximum, force)
    \/ \E value \in CallInputs : IntegerApply(value)

SpecInteger == InitInteger /\ [][NextInteger]_vars

-----------------------------------------------------------------------------
(* C6.  For a list with min_length > 0, an index or slice deletion that    *)
(* would leave fewer than min_length elements fails with ListTooShort and  *)
(* leaves the stored sequence as it was; a deletion that leaves at least   *)
(* min_length elements removes exactly the addressed elements.             *)
C6_DeletePreflight ==
    [][llast'.op = "del" /\ lcfg.min > 0 =>
          LET gone == Addressed(Len(lst.store), llast'.key)
              left == Len(lst.store) - Cardinality(gone)
          IN /\ left < lcfg.min => llast'.err = "ListTooShort" /\ lst'.store = lst.store
             /\ left >= lcfg.min =>
                    /\ Len(lst'.store) = left
                    /\ lst'.store = Without(lst.store, gone, 0)
                    /\ llast'.err = "ok" \/ (llast'.key.kind = "index" /\ gone = {})]_vars

\* a slice deletion of two of three elements was rejected by a list that
\* must keep two
C6_Witness ==
    /\ llast.op = "del" /\ llast.key = SliceKey(0, 2, 1) /\ llast.err = "ListTooShort"
    /\ lcfg.min = 2 /\ Len(lst.store) = 3

(* C7.  In every state reached by constructing a list and applying         *)
(* appends, index assignments and deletions, its length is at most         *)
(* max_length when max_length > 0 and at least min_length when             *)
(* min_length > 0; an append to a list that holds max_length elements      *)
(* fails with ListTooLong.                                                 *)
C7_LengthBounds ==
    /\ [](lst.live =>
              /\ lcfg.max > 0 => Len(lst.store) <= lcfg.max
              /\ lcfg.min > 0 => Len(lst.store) >= lcfg.min)
    /\ [][llast'.op = "append" /\ lcfg.max > 0 /\ Len(lst.store) = lcfg.max =>
              llast'.err = "ListTooLong" /\ lst' = lst]_vars

\* an append to a full list was rejected
C7_Witness ==
    /\ lst.live /\ lcfg.max = MaxLen /\ Len(lst.store) = MaxLen
    /\ llast.op = "append" /\ llast.err = "ListTooLong"

\* the value the element coercer makes of an input
Coerced(v) == IntegerCall(v).v

(* C8.  For a list with allow_duplicates = false the stored elements are   *)
(* pairwise distinct in every reachable state: construction from input     *)
(* with two equal elements fails, an append of a stored value fails with   *)
(* ListDuplicate, an assignment at index i of the value stored at another  *)
(* index fails with ListDuplicate, and an assignment at index i of the     *)
(* value stored at i succeeds.                                             *)
C8_NoDuplicates ==
    ~lcfg.allow_dups =>
        /\ lst.live =>
               \A i, j \in 1..Len(lst.store) : i # j => lst.store[i] # lst.store[j]
        /\ /\ llast.op = "init"
           /\ \E i, j \in 1..Len(llast.input.items) :
                  /\ i # j
                  /\ IntegerCall(llast.input.items[i]).err = "ok"
                  /\ Coerced(llast.input.items[i]) = Coerced(llast.input.items[j])
           => llast.err # "ok"
        /\ /\ llast.op = "append" /\ IntegerCall(llast.val).err = "ok"
           /\ lcfg.max = 0 \/ Len(lst.store) < lcfg.max
           /\ Coerced(llast.val) \in SeqRange(lst.store)
           /\ lst.store # <<>> /\ lst.store[Len(lst.store)] # Coerced(llast.val)
           => llast.err = "ListDuplicate"
        /\ /\ llast.op = "set" /\ llast.key.a + 1 \in 1..Len(lst.store)
           /\ lst.store[llast.key.a + 1] # llast.val
           /\ llast.val \in SeqRange(lst.store)
           => llast.err = "ListDuplicate"
        /\ /\ llast.op = "set" /\ llast.key.a + 1 \in 1..Len(lst.store)
           /\ lst.store[llast.key.a + 1] = llast.val
           => llast.err = "ok"

Clamp(lo, hi, n) == IF n < lo THEN lo ELSE IF n > hi THEN hi ELSE n

(* C9.  For Integer(minimum=lo, maximum=hi, force=true) with lo <= hi and  *)
(* every integer input v, coercion never fails and returns lo when v < lo, *)
(* hi when v > hi, and v otherwise; with force=false an input outside      *)
(* [lo, hi] fails with a ValueError and an input inside it is returned     *)
(* unchanged.                                                              *)
C9_IntegerForce ==
    /\ /\ ilast.op = "new" /\ ilast.force = "true"
       /\ ilast.min # NoneV /\ ilast.max # NoneV /\ ilast.min.n <= ilast.max.n
       => ilast.err = "ok"
    /\ /\ ilast.op = "call" /\ ilast.val.k = "int"
       /\ ilast.min # NoneV /\ ilast.max # NoneV /\ ilast.min.n <= ilast.max.n
       => IF ilast.force = "true"
          THEN ilast.err = "ok" /\ ilast.res = IntV(Clamp(ilast.min.n, ilast.max.n, ilast.val.n))
          ELSE IF ilast.val.n < ilast.min.n \/ ilast.val.n > ilast.max.n
          THEN ilast.err = "ValueError"
          ELSE ilast.err = "ok" /\ ilast.res = ilast.val

-----------------------------------------------------------------------------
(* ISO ranges.  An instant is a count of ticks, SubSecond to the second,   *)
(* on the UTC time line; a duration has weeks, days, hours, minutes and    *)
(* whole seconds; the range texts of the programs have no years or months. *)
(* A range text is the sequence of parts re.split leaves of it: one part   *)
(* when it has no separator, two when it has one.  A part is empty, the    *)
(* text of an instant, the text of a duration, a text that starts with "P" *)
(* and is no duration, or any other text.                                  *)

SecondsPerDay == 24 * 60 * 60
TicksPerDay == SecondsPerDay * SubSecond

\* ts.date(), ts.hour, ts.minute, ts.second, ts.microsecond
DateOf(ts) == ts \div TicksPerDay
HourOf(ts) == (ts % TicksPerDay) \div (60 * 60 * SubSecond)
MinuteOf(ts) == ((ts % TicksPerDay) \div (60 * SubSecond)) % 60
SecondOf(ts) == ((ts % TicksPerDay) \div SubSecond) % 60
MicrosecondOf(ts) == ts % SubSecond

Part(kind, t, d) == [kind |-> kind, t |-> t, d |-> d]
EmptyPart == Part("empty", 0, NoDuration)
InstantPart(t) == Part("instant", t, NoDuration)
DurationPart(d) == Part("duration", 0, d)

\* part[0] == "P"
StartsWithP(part) == part.kind \in {"duration", "P"}

\* ISODateTimeRange.date_parser
date_parser(part) == IF part.kind = "instant" THEN Ok(part.t) ELSE Raise("ValueError")

\* parse_iso_duration: None for a text that is no duration
parse_iso_duration(part) ==
    IF part.kind = "duration" THEN [none |-> FALSE, d |-> part.d]
    ELSE [none |-> TRUE, d |-> NoDuration]

\* datetime.date: the proleptic Gregorian calendar.  A date is held as its
\* day number, counted from the first of January of EpochYear.
EpochYear == 2024
YearSpan == 5

IsLeap(year) == year % 4 = 0 /\ (year % 100 # 0 \/ year % 400 = 0)

DaysInMonth(year, month) ==
    IF month = 2 THEN (IF IsLeap(year) THEN 29 ELSE 28)
    ELSE IF month \in {4, 6, 9, 11} THEN 30 ELSE 31

DaysBeforeYear(year) ==
    365 * (year - 1) + (year - 1) \div 4 - (year - 1) \div 100 + (year - 1) \div 400

RECURSIVE DaysBeforeMonth(_, _)
DaysBeforeMonth(year, month) ==
    IF month = 1 THEN 0
    ELSE DaysBeforeMonth(year, month - 1) + DaysInMonth(year, month - 1)

\* date.toordinal()
Ordinal(year, month, day) == DaysBeforeYear(year) + DaysBeforeMonth(year, month) + day

\* datetime.date(year, month, day), as a day number
DayNumber(year, month, day) == Ordinal(year, month, day) - Ordinal(EpochYear, 1, 1)

\* ts.year, ts.month and ts.day of the date with day number n
CalendarDate(n) ==
    LET o == n + Ordinal(EpochYear, 1, 1)
        year == CHOOSE y \in (EpochYear - YearSpan)..(EpochYear + YearSpan) :
                    DaysBeforeYear(y) < o /\ o <= DaysBeforeYear(y + 1)
        month == CHOOSE m \in 1..12 :
                     /\ DaysBeforeMonth(year, m) < o - DaysBeforeYear(year)
                     /\ o - DaysBeforeYear(year) <= DaysBeforeMonth(year, m) + DaysInMonth(year, m)
    IN [year |-> year, month |-> month,
        day |-> o - DaysBeforeYear(year) - DaysBeforeMonth(year, month)]

\* a carry into the years that forgets that months count from one
first_of_month_carry_early(ts, duration) ==
    [year |-> ts.year + duration.years + (ts.month + duration.months) \div 12,
     month |-> ((ts.month + duration.months - 1) % 12) + 1]

\* lines 252-253: the year and the month of the first-of-month date; Python's
\* // and % round towards minus infinity, as \div and % do
first_of_month(ts, duration) ==
    [year |-> ts.year + duration.years + (ts.month + duration.months - 1) \div 12,
     month |-> ((ts.month + duration.months - 1) % 12) + 1]

\* add_duration_date, on the day number of a date
add_duration_date(date, duration) ==
    LET ts == CalendarDate(date)
        first == first_of_month(ts, duration)
    IN DayNumber(first.year, first.month, 1) + duration.days + ts.day - 1
           + 7 * duration.weeks

\* add_duration_datetime: midnight of the new date plus the hours, minutes
\* and seconds of ts and of the duration
add_duration_datetime(ts, duration) ==
    (add_duration_date(DateOf(ts), duration) * SecondsPerDay
        + (HourOf(ts) + duration.hours) * 60 * 60
        + (MinuteOf(ts) + duration.minutes) * 60
        + (SecondOf(ts) + duration.seconds)) * SubSecond

add_duration(ts, duration) == add_duration_datetime(ts, duration)

sub_duration(ts, duration) ==
    add_duration(ts, [years |-> -duration.years, months |-> -duration.months,
                      weeks |-> -duration.weeks, days |-> -duration.days,
                      hours |-> -duration.hours, minutes |-> -duration.minutes,
                      seconds |-> -duration.seconds])

IsoFail == [err |-> "ValueError", start |-> 0, end |-> 0]
IsoOk(start_date, end_date) == [err |-> "ok", start |-> start_date, end |-> end_date]

\* parse_iso_range(value, date_parser, duration_parser), the clock reading now
parse_iso_range(parts, now) ==
    IF Len(parts) # 2 THEN IsoFail
    ELSE LET part1 == IF parts[1].kind = "empty" THEN InstantPart(now) ELSE parts[1]
             part2 == IF parts[2].kind = "empty" THEN InstantPart(now) ELSE parts[2]
             d1 == parse_iso_duration(part1)
             d2 == parse_iso_duration(part2)
         IN IF StartsWithP(part1) /\ StartsWithP(part2)
            THEN LET middle == date_parser(InstantPart(now)).v
                 IN IF d1.none \/ d2.none THEN IsoFail
                    ELSE IsoOk(sub_duration(middle, d1.d), add_duration(middle, d2.d))
            ELSE IF StartsWithP(part1)
            THEN IF date_parser(part2).err # "ok" \/ d1.none THEN IsoFail
                 ELSE IsoOk(sub_duration(date_parser(part2).v, d1.d), date_parser(part2).v)
            ELSE IF StartsWithP(part2)
            THEN IF date_parser(part1).err # "ok" \/ d2.none THEN IsoFail
                 ELSE IsoOk(date_parser(part1).v, add_duration(date_parser(part1).v, d2.d))
            ELSE IF date_parser(part1).err # "ok" \/ date_parser(part2).err # "ok"
            THEN IsoFail
            ELSE IsoOk(date_parser(part1).v, date_parser(part2).v)

\* instants with and without a fraction of a second, before and after midnight
InstantInputs == {0, 1, TicksPerDay - SubSecond, TicksPerDay + 1}

DurationInputs ==
    [years : {0}, months : {0}, weeks : 0..MaxDur, days : 0..MaxDur, hours : 0..MaxDur,
     minutes : 0..MaxDur, seconds : 0..MaxDur]

PartInputs ==
    {EmptyPart, Part("P", 0, NoDuration), Part("text", 0, NoDuration)}
        \cup {InstantPart(t) : t \in InstantInputs}
        \cup {DurationPart(d) : d \in DurationInputs}

\* the clock when the text is parsed: on a second, and past one
NowInputs == {2 * TicksPerDay + 7 * SubSecond, 2 * TicksPerDay + 7 * SubSecond + 1}

InitIso ==
    /\ IsoIdle
    /\ CalIdle
    /\ ThrIdle
    /\ OrdIdle
    /\ RecordIdle
    /\ ListIdle
    /\ IntIdle

\* parse_iso_range of a text with the parts given, at the clock reading now
ParseIsoRange(parts, now) ==
    /\ iso.op = "none"
    /\ LET r == parse_iso_range(parts, now)
       IN iso' = [op |-> "parse", parts |-> parts, now |-> now, err |-> r.err,
                  lower |-> r.start, upper |-> r.end]
    /\ UNCHANGED <<recVars, listVars, intVars, ordVars, thrVars, calVars>>

NextIso ==
    \E now \in NowInputs :
        \/ \E p1 \in PartInputs : ParseIsoRange(<<p1>>, now)
        \/ \E p1 \in PartInputs, p2 \in PartInputs : ParseIsoRange(<<p1, p2>>, now)
        \/ \E p1 \in {EmptyPart, InstantPart(0)}, p2 \in {EmptyPart, InstantPart(0)},
              p3 \in {EmptyPart, InstantPart(0)} : ParseIsoRange(<<p1, p2, p3>>, now)

SpecIso == InitIso /\ [][NextIso]_vars

\* the length of a duration, in ticks
DurationTicks(d) ==
    ((((d.weeks * 7 + d.days) * 24 + d.hours) * 60 + d.minutes) * 60 + d.seconds) * SubSecond

(* C11.  A range text with exactly one separator: two instants give those  *)
(* instants as bounds; a duration d on the left of an instant gives        *)
(* lower = upper - d; a duration d on the right of an instant gives        *)
(* upper = lower + d; two durations d1 and d2 give lower = now - d1 and    *)
(* upper = now + d2 for one value of now within the second of the parse,   *)
(* so that upper - lower = d1 + d2.  A text with no separator fails.       *)
C11_IsoRange ==
    iso.op = "parse" =>
        /\ Len(iso.parts) = 1 => iso.err = "ValueError"
        /\ Len(iso.parts) = 2 =>
               LET p1 == iso.parts[1]
                   p2 == iso.parts[2]
               IN /\ p1.kind = "instant" /\ p2.kind = "instant" =>
                         iso.err = "ok" /\ iso.lower = p1.t /\ iso.upper = p2.t
                  /\ p1.kind = "duration" /\ p2.kind = "instant" =>
                         /\ iso.err = "ok" /\ iso.upper = p2.t
                         /\ iso.lower = iso.upper - DurationTicks(p1.d)
                  /\ p1.kind = "instant" /\ p2.kind = "duration" =>
                         /\ iso.err = "ok" /\ iso.lower = p1.t
                         /\ iso.upper = iso.lower + DurationTicks(p2.d)
                  /\ p1.kind = "duration" /\ p2.kind = "duration" =>
                         /\ iso.err = "ok"
                         /\ \E n \in (iso.now - MicrosecondOf(iso.now))..iso.now :
                                /\ iso.lower = n - DurationTicks(p1.d)
                                /\ iso.upper = n + DurationTicks(p2.d)

-----------------------------------------------------------------------------
(* Declarations of every kind.  Class A declares f in any of the ways a    *)
(* field can be declared, and with it or not a Constant g without default; *)
(* its subclass B declares f: int again, without a default, or declares    *)
(* nothing.                                                                *)

AllKinds ==
    DeclKinds \cup
        {[typ |-> "int", dflt |-> Lit(IntV(0))],
         [typ |-> "bool", dflt |-> Lit(BoolV(0))],
         [typ |-> "str", dflt |-> Lit(TxtV(0))],
         [typ |-> "int", dflt |-> Lit(NoneV)],
         [typ |-> "Constant", dflt |-> NoAttr],
         [typ |-> "Constant", dflt |-> Lit(NoneV)]}

DeclareProgram(kf, withG, redecl) ==
    [annot |-> [c \in Classes |->
                   IF c = "A"
                   THEN <<Annotation("f", kf.typ)>>
                            \o (IF withG THEN <<Annotation("g", "Constant")>> ELSE <<>>)
                   ELSE IF c = "B" /\ redecl THEN <<Annotation("f", "int")>>
                   ELSE <<>>],
     decl |-> [c \in Classes |-> [n \in FieldNames |->
                   IF c = "A" /\ n = "f" THEN kf.dflt ELSE NoAttr]],
     active |-> {"A", "B"}]

DeclarePrograms ==
    {DeclareProgram(kf, FALSE, redecl) : kf \in AllKinds, redecl \in BOOLEAN}
        \cup {DeclareProgram([typ |-> "int", dflt |-> Lit(IntV(1))], TRUE, redecl) :
                  redecl \in BOOLEAN}

InitDeclare == \E p \in DeclarePrograms : InitProgram(p)

SpecDeclare == InitDeclare /\ [][NextRecord]_vars

\* the flags the classification table gives a field whose stored default is
\* the marker d: [is_required, is_readonly, has_default, default]
Flags(req, ro, hasd, dflt) ==
    [is_required |-> req, is_readonly |-> ro, has_default |-> hasd, default |-> dflt]

TableFlags(d) ==
    CASE d = NoAttr -> Flags(TRUE, FALSE, FALSE, NoneV)
      [] d = ReadOnly -> Flags(TRUE, TRUE, FALSE, NoneV)
      [] d.m = "ReadOnlyOf" -> Flags(FALSE, TRUE, TRUE, d.v)
      [] d = Optional -> Flags(FALSE, FALSE, FALSE, NoneV)
      [] d = OptionalReadOnly -> Flags(FALSE, TRUE, FALSE, NoneV)
      [] OTHER -> Flags(FALSE, FALSE, TRUE, d.v)

FlagsOf(field) ==
    Flags(field.is_required, field.is_readonly, field.has_default, field.default)

\* c, or a class c inherits from, declares a Constant field without default
MissingConstant(c) ==
    \E b \in SeqRange(Mro[c]), n \in FieldNames :
        /\ Declares(b, n) /\ DeclaredType(b, n) = "Constant"
        /\ decl[b][n] \in {NoAttr, PyNone}

(* C12.  Every class without a defaultless Constant gets a schema, and the *)
(* flags of each field the class itself declares (not as a Constant) are   *)
(* those of the classification table for the default stored on the class:  *)
(* nothing stored: required; ReadOnly: required, read-only; ReadOnly(v):    *)
(* read-only, default v; Optional: none of them; OptionalReadOnly:         *)
(* read-only; any other literal v, also False, 0, the empty text and None: *)
(* default v.                                                              *)
C12_Classification ==
    /\ last.op = "init" /\ ~MissingConstant(last.cls) => cache[last.cls].cached
    /\ \A c \in Classes, n \in FieldNames :
           /\ cache[c].cached
           /\ Declares(c, n) /\ DeclaredType(c, n) # "Constant"
           => /\ n \in Names(cache[c].fields)
              /\ FlagsOf(FieldOf(cache[c].fields, n)) = TableFlags(decl[c][n])
              /\ ~FieldOf(cache[c].fields, n).is_constant

(* C13.  For a class that declares a Constant field without default, every *)
(* construction, the first and every later one, with or without arguments, *)
(* fails with ConstantMissingDefault, and no schema is ever cached for the *)
(* class.                                                                  *)
C13_ConstantMissingDefault ==
    \A c \in Classes :
        (\E n \in FieldNames :
             /\ Declares(c, n) /\ DeclaredType(c, n) = "Constant"
             /\ decl[c][n] \in {NoAttr, PyNone})
        => /\ ~cache[c].cached
           /\ last.op = "init" /\ last.cls = c =>
                  last.err = "ConstantMissingDefault" /\ ~x.live

\* a later construction, with an argument, fails again after the first one
\* has consumed the default of the field declared before the Constant
C13_Witness ==
    /\ Declares("A", "g") /\ decl["A"]["f"] = Lit(IntV(1)) /\ clsDict["A"]["f"] = NoAttr
    /\ last.op = "init" /\ last.cls = "A" /\ "f" \in DOMAIN last.kwargs
    /\ last.err = "ConstantMissingDefault"
    /\ ~cache["A"].cached

-----------------------------------------------------------------------------
(* Positional construction.  Class A declares f and g as int fields that   *)
(* are required, optional or defaulted, and is constructed with up to      *)
(* MaxArgs positional arguments.                                           *)

PositionalKinds ==
    {[typ |-> "int", dflt |-> NoAttr],
     [typ |-> "int", dflt |-> Optional],
     [typ |-> "int", dflt |-> Lit(IntV(1))]}

PositionalPrograms ==
    {[annot |-> [c \in Classes |->
                    IF c = "A" THEN <<Annotation("f", kf.typ), Annotation("g", kg.typ)>>
                    ELSE <<>>],
      decl |-> [c \in Classes |-> [n \in FieldNames |->
                    IF c = "A" /\ n = "f" THEN kf.dflt
                    ELSE IF c = "A" /\ n = "g" THEN kg.dflt
                    ELSE NoAttr]],
      active |-> {"A"}] : kf \in PositionalKinds, kg \in PositionalKinds}

ArgInputs == {IntV(n) : n \in 0..MaxVal} \cup {NoneV, StrV(1)}

InitPositional == \E p \in PositionalPrograms : InitProgram(p)

NextPositional ==
    \/ /\ last.op = "none"
       /\ \E cls \in active, n \in 0..MaxArgs :
              \E args \in [1..n -> ArgInputs], names \in SUBSET DeclaredNames :
                  Construct(cls, args, [m \in names |-> IntV(1)], FALSE)
    \/ /\ last.op # "none"
       /\ \E cls \in active, n \in 0..1 :
              \E args \in [1..n -> {IntV(0)}] : Construct(cls, args, EmptyStore, FALSE)
    \/ \E name \in DeclaredNames : \E value \in {IntV(0), NoneV} : SetAttr(name, value)
    \/ \E name \in DeclaredNames : DelAttr(name)
    \/ RoundTrip

SpecPositional == InitPositional /\ [][NextPositional]_vars

\* the name the i-th positional argument is bound to
BoundName(i) == annot[last.cls][i].name

\* the i-th positional argument of the last construction is what the
\* instance holds under the i-th field name
Bound(i) ==
    IF last.args[i] = NoneV /\ ~IsRequiredDecl(last.cls, BoundName(i))
    THEN BoundName(i) \notin DOMAIN x.store
    ELSE /\ BoundName(i) \in DOMAIN x.store
         /\ x.store[BoundName(i)] = ValueAsInt(last.args[i])

(* C14.  A construction binds its k positional arguments to the first k    *)
(* field names in schema order; k greater than the number of declared      *)
(* fields fails with ExtraAttribute, and a positionally bound name that is *)
(* also given as a keyword fails with DuplicateAttribute; neither failure  *)
(* produces an instance.                                                   *)
C14_Positional ==
    /\ [](last.op = "init" =>
              LET k == Len(last.args)
                  nf == Len(annot[last.cls])
              IN /\ k > nf => last.err = "ExtraAttribute"
                 /\ k <= nf /\ (\E i \in 1..k : BoundName(i) \in DOMAIN last.kwargs) =>
                        last.err = "DuplicateAttribute"
                 /\ last.err = "ok" => \A i \in 1..k : Bound(i))
    /\ [][last'.op = "init" /\ last'.err \in {"ExtraAttribute", "DuplicateAttribute"} =>
              x' = x]_vars

\* two positional arguments were bound to f and g, in this order
C14_Witness ==
    /\ last.op = "init" /\ last.err = "ok" /\ last.args = <<IntV(0), IntV(1)>>
    /\ x.live /\ x.store["f"] = IntV(0) /\ x.store["g"] = IntV(1)

-----------------------------------------------------------------------------
\* the keywords of the last construction that name declared fields
DeclaredKwargs ==
    [n \in {m \in DOMAIN last.kwargs : Declares(last.cls, m)} |-> last.kwargs[n]]

\* the last construction gave a keyword the schema does not have
HasUnknownKeyword == \E n \in DOMAIN last.kwargs : ~Declares(last.cls, n)

(* C15.  A keyword name that is not in the schema makes the construction   *)
(* fail, with UndefinedAttribute unless an earlier check fails first, when *)
(* the ignore flag is unset, and is dropped when the flag is set: the      *)
(* construction then ends as it does without that keyword.  An assignment  *)
(* to a name that is not in the schema fails with UndefinedAttribute.  In  *)
(* every reachable state the names stored on an instance are names of its  *)
(* schema.                                                                 *)
C15_UndefinedAttribute ==
    /\ last.op = "init" /\ HasUnknownKeyword /\ ~last.ign =>
           /\ last.err # "ok"
           /\ ~(Len(last.args) = 1 /\ FirstField \in DOMAIN last.kwargs) =>
                  last.err = "UndefinedAttribute"
    /\ last.op = "init" /\ HasUnknownKeyword /\ last.ign =>
           LET r == __init__(last.cls, cache[last.cls].fields, last.args, DeclaredKwargs, FALSE)
           IN /\ last.err = r.err
              /\ last.err = "ok" => x.store = r.store
    /\ last.op = "set" /\ ~Declares(last.cls, last.name) => last.err = "UndefinedAttribute"
    /\ x.live => \A n \in DOMAIN x.store : Declares(x.cls, n)

\* a construction with an unknown keyword and the ignore flag made an
\* instance without it
C15_Witness ==
    /\ last.op = "init" /\ last.ign /\ "zz" \in DOMAIN last.kwargs /\ last.err = "ok"
    /\ x.live /\ "zz" \notin DOMAIN x.store /\ "f" \in DOMAIN x.store

-----------------------------------------------------------------------------
\* the coercer of a declared field that is no Constant
DeclaredCoercer(cls, n) == get_type(DeclaredType(cls, n))

\* two stores agree on every name but n
SameBut(s, t, n) ==
    /\ DOMAIN s \ {n} = DOMAIN t \ {n}
    /\ \A m \in DOMAIN s \ {n} : s[m] = t[m]

(* C16.  Assigning None to a field that is neither required nor read-only  *)
(* never fails and leaves the field absent, present before or not, with    *)
(* every other field unchanged; assigning another value stores what the    *)
(* coercer makes of it, or fails as the coercer does and changes nothing.  *)
(* For a required field None goes to the coercer like any other value.     *)
C16_AssignNone ==
    [][/\ last'.op = "set"
       /\ Declares(x.cls, last'.name) /\ ~IsReadOnlyDecl(x.cls, last'.name)
       => LET n == last'.name
              r == Coerce(DeclaredCoercer(x.cls, n), last'.val)
          IN IF last'.val = NoneV /\ ~IsRequiredDecl(x.cls, n)
             THEN /\ last'.err = "ok"
                  /\ n \notin DOMAIN x'.store
                  /\ SameBut(x.store, x'.store, n)
             ELSE IF r.err = "ok"
             THEN /\ last'.err = "ok"
                  /\ n \in DOMAIN x'.store /\ x'.store[n] = r.v
                  /\ SameBut(x.store, x'.store, n)
             ELSE last'.err = r.err /\ x' = x]_vars

\* None was assigned to a defaulted field, which is absent now; the other
\* field is still there
C16_Witness ==
    /\ decl["A"]["f"] = Lit(IntV(1)) /\ decl["A"]["g"] = NoAttr
    /\ last.op = "set" /\ last.name = "f" /\ last.val = NoneV /\ last.err = "ok"
    /\ x.live /\ "f" \notin DOMAIN x.store /\ "g" \in DOMAIN x.store

-----------------------------------------------------------------------------
(* C17.  Deleting a field that the schema declares, that is not read-only  *)
(* and that has no value on the instance fails with UndefinedAttribute and *)
(* leaves the instance unchanged; deleting a name that is not in the       *)
(* schema fails with UndefinedAttribute too; deleting a present field that *)
(* is not read-only removes exactly that field.                            *)
C17_Delete ==
    [][last'.op = "del" =>
          LET n == last'.name
          IN /\ ~Declares(x.cls, n) => last'.err = "UndefinedAttribute" /\ x' = x
             /\ Declares(x.cls, n) /\ ~IsReadOnlyDecl(x.cls, n) /\ n \notin DOMAIN x.store =>
                    last'.err = "UndefinedAttribute" /\ x' = x
             /\ Declares(x.cls, n) /\ ~IsReadOnlyDecl(x.cls, n) /\ n \in DOMAIN x.store =>
                    /\ last'.err = "ok"
                    /\ n \notin DOMAIN x'.store
                    /\ SameBut(x.store, x'.store, n)]_vars

-----------------------------------------------------------------------------
(* Reading.  The hierarchy programs, which also read the instance.         *)

\* x.name
GetAttr(name) ==
    /\ x.live
    /\ LET d == derive_fields(x.cls, clsDict, cache)
           r == __getattribute__(d.fields, clsDict, x.cls, x.store, name)
       IN last' = [NoLast EXCEPT !.op = "get", !.cls = x.cls, !.name = name,
                                 !.val = r.v, !.err = r.err]
    /\ rt' = NoRoundTrip
    /\ UNCHANGED <<progVars, clsDict, cache, derived, x, listVars, intVars, isoVars, ordVars, thrVars, calVars>>

NextRead ==
    \/ NextRecord
    \/ \E name \in InputNames : GetAttr(name)

SpecRead == InitHierarchy /\ [][NextRead]_vars

(* C18.  Reading a schema field that has no value on the instance raises   *)
(* AttributeError and returns no value, also when an ancestor class still  *)
(* stores a default under the field's name, whatever the order in which    *)
(* the classes were derived; reading a field that has a value returns it.  *)
C18_ReadAbsent ==
    last.op = "get" /\ last.name \in Names(cache[x.cls].fields) =>
        IF last.name \in DOMAIN x.store
        THEN last.err = "ok" /\ last.val = x.store[last.name]
        ELSE last.err = "AttributeError"

\* a B instance without g was read while A, not yet derived, still stores
\* its default for g
C18_Witness ==
    /\ last.op = "get" /\ last.name = "g" /\ last.err = "AttributeError"
    /\ x.live /\ x.cls = "B" /\ "g" \notin DOMAIN x.store
    /\ ~cache["A"].cached /\ clsDict["A"]["g"] = Lit(IntV(10))

-----------------------------------------------------------------------------
(* C19.  A class that has been used carries its own cached schema and has  *)
(* lost its own stored defaults; a class that has not been used carries no *)
(* cached schema and still holds the defaults it declares, also after its  *)
(* subclasses were used.  The first use of a class changes the cache and   *)
(* the stored defaults of no other class, and a cached schema never        *)
(* changes afterwards.                                                     *)
C19_FirstUse ==
    /\ [](\A c \in active :
              /\ cache[c].cached => \A n \in FieldNames : clsDict[c][n] = NoAttr
              /\ ~cache[c].cached => cache[c] = NoCache /\ clsDict[c] = decl[c])
    /\ [][\A c \in active :
              /\ cache[c].cached => cache'[c] = cache[c]
              /\ ~cache[c].cached /\ cache'[c].cached =>
                     \A b \in active \ {c} :
                         cache'[b] = cache[b] /\ clsDict'[b] = clsDict[b]]_vars

\* B, which redeclares g, was used while its base A was not; A was used
\* next, and B's schema still has B's default
C19_Witness ==
    /\ derived = <<"B", "A">>
    /\ Declares("B", "g")
    /\ last.op = "init" /\ last.cls = "A" /\ last.err = "ok"
    /\ cache["A"].cached /\ clsDict["A"]["g"] = NoAttr
    /\ cache["B"].cached /\ clsDict["B"]["g"] = NoAttr
    /\ FieldOf(cache["B"].fields, "g").default = IntV(11)
    /\ FieldOf(cache["A"].fields, "g").default = IntV(10)

-----------------------------------------------------------------------------
(* The derivations of a program, replayed from its class statements in the *)
(* order in which its classes were first used.                             *)

\* the class namespaces and caches after the first k derivations, and how
\* many times each class's annotations were parsed by them
RECURSIVE Replay(_)
Replay(k) ==
    IF k = 0
    THEN [dict |-> decl, cache |-> [c \in Classes |-> NoCache],
          scans |-> [c \in Classes |-> 0]]
    ELSE LET p == Replay(k - 1)
             d == derive_fields(derived[k], p.dict, p.cache)
         IN [dict |-> d.dict, cache |-> d.cache,
             scans |-> [c \in Classes |->
                           p.scans[c] + Cardinality({i \in 1..Len(d.scanned) : d.scanned[i] = c})]]

History == Replay(Len(derived))

\* the position of class c in derived, or past its end
DerivedAt(c) ==
    IF c \in SeqRange(derived) THEN CHOOSE i \in 1..Len(derived) : derived[i] = c
    ELSE Len(derived) + 1

(* C20, as claimed.  Each class's own declarations are parsed at most      *)
(* once, however many of its subclasses are derived.                       *)
C20_ScannedOnce ==
    LET h == History
    IN h.dict = clsDict /\ h.cache = cache => \A c \in active : h.scans[c] <= 1

(* C20, amended.  A class's stored defaults are consumed once, by the      *)
(* class's own first derivation and by nothing else, and its schema is     *)
(* cached by that derivation only.  Its declarations are parsed once by    *)
(* its own first derivation and once by each derivation of a subclass that *)
(* precedes it, and never after it carries its own cache.                  *)
C20_ConsumedOnce ==
    /\ [](LET h == History
          IN /\ h.dict = clsDict
             /\ h.cache = cache
             /\ \A c \in active :
                    h.scans[c] =
                        Cardinality({i \in 1..Len(derived) :
                                        /\ i <= DerivedAt(c)
                                        /\ c \in SeqRange(bases(derived[i]))}))
    /\ [][\A c \in active :
              /\ clsDict'[c] # clsDict[c] =>
                     /\ ~cache[c].cached /\ cache'[c].cached
                     /\ last'.op = "init" /\ last'.cls = c
                     /\ clsDict[c] = decl[c]
                     /\ \A n \in FieldNames : clsDict'[c][n] = NoAttr
              /\ cache'[c] # cache[c] =>
                     ~cache[c].cached /\ cache'[c].cached /\ last'.cls = c]_vars

\* two subclasses were derived before their base: the base's declarations
\* were parsed three times and its default consumed by the third derivation
C20_Witness ==
    /\ derived = <<"B", "C", "A">>
    /\ History.scans["A"] = 3
    /\ History.scans["B"] = 1 /\ History.scans["C"] = 1
    /\ clsDict["A"]["g"] = NoAttr /\ cache["A"].cached
    /\ last.op = "init" /\ last.cls = "A"

-----------------------------------------------------------------------------
(* C21.  When a class redeclares a field with no stored default of its own *)
(* while an ancestor still stores a default under the name, the class's    *)
(* derivation succeeds, its field is required with no default, and the     *)
(* ancestor's stored default is neither used nor removed.                  *)
C21_OwnDefaultOnly ==
    /\ last.op = "init" /\ last.cls = "B"
    /\ Declares("B", "f") /\ decl["B"]["f"] = NoAttr
    /\ clsDict["A"]["f"] # NoAttr
    /\ ~MissingConstant("B")
    => /\ cache["B"].cached
       /\ FlagsOf(FieldOf(cache["B"].fields, "f")) = Flags(TRUE, FALSE, FALSE, NoneV)
       /\ clsDict["A"]["f"] = decl["A"]["f"]

-----------------------------------------------------------------------------
(* The class ordering, over inheritance graphs.  A graph gives the         *)
(* __bases__ of the classes 1..MaxClasses, each a sequence of at most      *)
(* MaxBases earlier classes (a class without bases derives from            *)
(* Serializable alone, which declares no field and comes first in every    *)
(* ordering).  Python accepts a class statement only when the C3 merge of  *)
(* its bases' linearizations exists.                                       *)

MaxClasses == 5
MaxBases == 2

\* the sequences of up to n distinct elements of S
DistinctSeqs(S, n) ==
    {q \in UNION {[1..k -> S] : k \in 0..n} :
        \A i, j \in 1..Len(q) : i # j => q[i] # q[j]}

\* type.__new__: the C3 merge of the linearizations seqs
RECURSIVE C3Merge(_)
C3Merge(seqs) ==
    LET ne == SelectSeq(seqs, LAMBDA q : Len(q) > 0)
        good == {i \in 1..Len(ne) :
                    \A j \in 1..Len(ne) : Head(ne[i]) \notin SeqRange(Tail(ne[j]))}
    IN IF Len(ne) = 0 THEN [ok |-> TRUE, mro |-> <<>>]
       ELSE IF good = {} THEN [ok |-> FALSE, mro |-> <<>>]
       ELSE LET i == CHOOSE k \in good : \A m \in good : k <= m
                h == Head(ne[i])
                r == C3Merge([j \in 1..Len(ne) |->
                                 IF Head(ne[j]) = h THEN Tail(ne[j]) ELSE ne[j]])
            IN [ok |-> r.ok, mro |-> <<h>> \o r.mro]

\* cls.__mro__ in graph, when the class statement is accepted
RECURSIVE Linearize(_, _)
Linearize(graph, cls) ==
    LET lin == [i \in 1..Len(graph[cls]) |-> Linearize(graph, graph[cls][i])]
        r == C3Merge([i \in 1..Len(graph[cls]) |-> lin[i].mro] \o <<graph[cls]>>)
    IN [ok |-> r.ok /\ \A i \in 1..Len(graph[cls]) : lin[i].ok, mro |-> <<cls>> \o r.mro]

\* the graphs of n classes Python accepts
RECURSIVE GraphsUpTo(_)
GraphsUpTo(n) ==
    IF n = 0 THEN {<<>>}
    ELSE {g \in {Append(h, b) : h \in GraphsUpTo(n - 1),
                                b \in DistinctSeqs(1..(n - 1), MaxBases)} :
             Linearize(g, n).ok}

InitOrder ==
    /\ \E g \in GraphsUpTo(MaxClasses) : ord = [NoOrd EXCEPT !.graph = g]
    /\ RecordIdle
    /\ ListIdle
    /\ IntIdle
    /\ IsoIdle
    /\ CalIdle
    /\ ThrIdle

\* bases(start_class), as derive_fields computes it for a class of the graph
Order(start_class) ==
    /\ ord' = [ord EXCEPT !.op = "bases", !.start = start_class,
                          !.order = search(ord.graph, start_class, <<>>)]
    /\ UNCHANGED <<recVars, listVars, intVars, isoVars, thrVars, calVars>>

NextOrder == \E c \in 1..MaxClasses : Order(c)

SpecOrder == InitOrder /\ [][NextOrder]_vars

\* the classes cls inherits from, in graph
RECURSIVE AncestorsOf(_, _)
AncestorsOf(graph, cls) ==
    UNION {{graph[cls][i]} \cup AncestorsOf(graph, graph[cls][i]) : i \in 1..Len(graph[cls])}

IndexIn(order, cls) == CHOOSE i \in 1..Len(order) : order[i] = cls

\* lines 280-292: of the classes that declare a field, the last in the
\* ordering gives the merged schema its FieldSpec
Winner(order, declaring) ==
    order[CHOOSE i \in 1..Len(order) :
              /\ order[i] \in declaring
              /\ \A j \in 1..Len(order) : order[j] \in declaring => j <= i]

(* C22.  The ordering holds the class and its ancestors, each once, every  *)
(* ancestor before its descendants; of two direct bases of one class,      *)
(* neither an ancestor of the other, the rightmost-declared comes first,   *)
(* so that when just these two declare a field the leftmost's FieldSpec is *)
(* the one in the merged schema.                                           *)
C22_Ordering ==
    ord.op = "bases" =>
        LET g == ord.graph
            o == ord.order
        IN /\ SeqRange(o) = {ord.start} \cup AncestorsOf(g, ord.start)
           /\ \A i, j \in 1..Len(o) : i # j => o[i] # o[j]
           /\ \A c \in SeqRange(o) : \A a \in AncestorsOf(g, c) :
                  IndexIn(o, a) < IndexIn(o, c)
           /\ \A k \in SeqRange(o) : \A l, r \in 1..Len(g[k]) :
                  /\ l < r
                  /\ g[k][l] \notin AncestorsOf(g, g[k][r])
                  /\ g[k][r] \notin AncestorsOf(g, g[k][l])
                  => /\ IndexIn(o, g[k][r]) < IndexIn(o, g[k][l])
                     /\ Winner(o, {g[k][l], g[k][r]}) = g[k][l]

-----------------------------------------------------------------------------
(* Shapes and markers.  Class A declares f with either shape, int or       *)
(* Constant, and any stored default marker, and g: int.                    *)

ShapeKinds ==
    {[typ |-> t, dflt |-> d] :
        t \in {"int", "Constant"},
        d \in {NoAttr, ReadOnly, ReadOnlyOf(IntV(1)), Optional, OptionalReadOnly,
               Lit(IntV(1)), Lit(IntV(0)), PyNone}}

ShapePrograms ==
    {[annot |-> [c \in Classes |->
                    IF c = "A" THEN <<Annotation("f", k.typ), Annotation("g", "int")>>
                    ELSE <<>>],
      decl |-> [c \in Classes |-> [n \in FieldNames |->
                    IF c = "A" /\ n = "f" THEN k.dflt ELSE NoAttr]],
      active |-> {"A"}] : k \in ShapeKinds}

InitShape == \E p \in ShapePrograms : InitProgram(p)

SpecShape == InitShape /\ [][NextRecord]_vars

(* C23.  Every FieldSpec of a derived schema that is constant is read-only *)
(* and has a default, whatever the declared shape and the stored default   *)
(* marker, the markers ReadOnly, Optional and OptionalReadOnly included.   *)
C23_ConstantInvariant ==
    \A c \in active :
        cache[c].cached =>
            \A i \in 1..Len(cache[c].fields) :
                cache[c].fields[i].is_constant =>
                    cache[c].fields[i].is_readonly /\ cache[c].fields[i].has_default

-----------------------------------------------------------------------------
(* Mutations.  A program works on a record instance or on a list.          *)

InitMutation == InitRecord \/ InitList

NextMutation ==
    \/ ~RecordIdle /\ NextRecord
    \/ RecordIdle /\ NextList

SpecMutation == InitMutation /\ [][NextMutation]_vars

(* C24.  A failing mutation leaves its target as it was: an assignment to  *)
(* or a deletion of a record attribute that fails leaves the instance's    *)
(* fields and values unchanged, and an append to or an index assignment on *)
(* a list that fails leaves the stored sequence unchanged.                 *)
C24_FailedMutation ==
    [][/\ last' # last /\ last'.op \in {"set", "del"} /\ last'.err # "ok" => x' = x
       /\ llast' # llast /\ llast'.op \in {"append", "set"} /\ llast'.err # "ok" =>
              lst' = lst]_vars

\* an append of a value the list without duplicates holds has failed
C24_Witness ==
    /\ llast.op = "append" /\ llast.err = "ListDuplicate"
    /\ lst.live /\ ~lcfg.allow_dups
    /\ Len(lst.store) = 2 /\ lst.store[1] # lst.store[2]
    /\ Coerced(llast.val) \in SeqRange(lst.store)

-----------------------------------------------------------------------------
(* Concurrent first use.  Each thread runs derive_fields for the one class *)
(* the program uses; a step of a thread is one access to the class         *)
(* namespaces or to the cache, with the local work that follows it.        *)

\* class A declares f, with or without a default; the program uses A, or
\* B(A), which declares g with a default
ThreadPrograms ==
    {[annot |-> [c \in Classes |->
                    IF c = "A" THEN <<Annotation("f", "int")>>
                    ELSE IF c = "B" THEN <<Annotation("g", "int")>>
                    ELSE <<>>],
      decl |-> [c \in Classes |-> [n \in FieldNames |->
                    IF c = "A" /\ n = "f" THEN d
                    ELSE IF c = "B" /\ n = "g" THEN Lit(IntV(2))
                    ELSE NoAttr]],
      active |-> {c0}] : d \in {NoAttr, Lit(IntV(1)), Optional}, c0 \in {"A", "B"}}

InitThreads == \E p \in ThreadPrograms : InitProgram(p)

ThreadFrame == UNCHANGED <<progVars, derived, x, last, rt, listVars, intVars, isoVars, ordVars, calVars>>

\* the class and the annotation thread t is at
ThreadCls(t) == bases(thr[t].class_)[thr[t].i]
ThreadAnnotation(t) == annot[ThreadCls(t)][thr[t].j]

\* line 292, with the default dflt, and the move to the next annotation or,
\* after the last one, to the next class
ThreadAddField(t, dflt) ==
    LET me == thr[t]
        r == _add_field(me.fields, ThreadAnnotation(t).name, ThreadAnnotation(t).typ, dflt)
    IN IF r.err # "ok" THEN [me EXCEPT !.pc = "done", !.err = r.err]
       ELSE IF me.j < Len(annot[ThreadCls(t)])
       THEN [me EXCEPT !.pc = "hasattr", !.j = me.j + 1, !.fields = r.fields]
       ELSE [me EXCEPT !.pc = "class", !.i = me.i + 1, !.j = 0, !.fields = r.fields]

\* the call derive_fields(class_)
ThreadStart(t, class_) ==
    /\ thr[t].pc = "idle"
    /\ thr' = [thr EXCEPT ![t] = [NoThread EXCEPT !.pc = "lookup", !.class_ = class_]]
    /\ UNCHANGED <<clsDict, cache, calVars>>
    /\ ThreadFrame

\* lines 258-259: the cached schema, if there is one
ThreadLookup(t) ==
    /\ thr[t].pc = "lookup"
    /\ thr' = [thr EXCEPT ![t] =
                  IF cache[thr[t].class_].cached
                  THEN [@ EXCEPT !.pc = "done", !.fields = cache[thr[t].class_].fields]
                  ELSE [@ EXCEPT !.pc = "class", !.i = 1]]
    /\ UNCHANGED <<clsDict, cache, calVars>>
    /\ ThreadFrame

\* lines 280-284: the next class of bases(class_), merged from its cache
\* or parsed
ThreadClass(t) ==
    /\ thr[t].pc = "class"
    /\ thr[t].i <= Len(bases(thr[t].class_))
    /\ thr' = [thr EXCEPT ![t] =
                  IF cache[ThreadCls(t)].cached
                  THEN [@ EXCEPT !.i = @ + 1,
                                 !.fields = DictUpdate(@, cache[ThreadCls(t)].fields)]
                  ELSE IF annot[ThreadCls(t)] = <<>> THEN [@ EXCEPT !.i = @ + 1]
                  ELSE [@ EXCEPT !.pc = "hasattr", !.j = 1]]
    /\ UNCHANGED <<clsDict, cache, calVars>>
    /\ ThreadFrame

\* line 285: hasattr(cls, nam); without a stored default, lines 290-292
ThreadHasAttr(t) ==
    /\ thr[t].pc = "hasattr"
    /\ thr' = [thr EXCEPT ![t] =
                  IF ClsHasAttr(clsDict, ThreadCls(t), ThreadAnnotation(t).name)
                  THEN [@ EXCEPT !.pc = "getattr"]
                  ELSE ThreadAddField(t, PyNone)]
    /\ UNCHANGED <<clsDict, cache, calVars>>
    /\ ThreadFrame

\* line 286: getattr(cls, nam), which raises when the default is gone; for
\* a class other than class_, line 292
ThreadGetAttr(t) ==
    /\ thr[t].pc = "getattr"
    /\ LET cls == ThreadCls(t)
           nam == ThreadAnnotation(t).name
       IN thr' = [thr EXCEPT ![t] =
                     IF ~ClsHasAttr(clsDict, cls, nam)
                     THEN [@ EXCEPT !.pc = "done", !.err = "AttributeError"]
                     ELSE IF ShouldDelete(cls, thr[t].class_)
                     THEN [@ EXCEPT !.pc = "delattr", !.dflt = ClsGetAttr(clsDict, cls, nam)]
                     ELSE ThreadAddField(t, ClsGetAttr(clsDict, cls, nam))]
    /\ UNCHANGED <<clsDict, cache, calVars>>
    /\ ThreadFrame

\* line 288: delattr(cls, nam), which raises when the class's own namespace
\* does not hold the name; then line 292
ThreadDelAttr(t) ==
    /\ thr[t].pc = "delattr"
    /\ LET cls == ThreadCls(t)
           nam == ThreadAnnotation(t).name
       IN IF clsDict[cls][nam] = NoAttr
          THEN /\ thr' = [thr EXCEPT ![t] = [@ EXCEPT !.pc = "done", !.err = "AttributeError"]]
               /\ UNCHANGED clsDict
          ELSE /\ thr' = [thr EXCEPT ![t] = ThreadAddField(t, thr[t].dflt)]
               /\ clsDict' = [clsDict EXCEPT ![cls][nam] = NoAttr]
    /\ UNCHANGED cache
    /\ ThreadFrame

\* lines 294-296: class_.__serializable__ = fields
ThreadWrite(t) ==
    /\ thr[t].pc = "class"
    /\ thr[t].i > Len(bases(thr[t].class_))
    /\ thr' = [thr EXCEPT ![t] = [@ EXCEPT !.pc = "done"]]
    /\ cache' = [cache EXCEPT ![thr[t].class_] = [cached |-> TRUE, fields |-> thr[t].fields]]
    /\ UNCHANGED clsDict
    /\ ThreadFrame

NextThreads ==
    \E t \in Threads :
        \/ \E class_ \in active : ThreadStart(t, class_)
        \/ ThreadLookup(t)
        \/ ThreadClass(t)
        \/ ThreadHasAttr(t)
        \/ ThreadGetAttr(t)
        \/ ThreadDelAttr(t)
        \/ ThreadWrite(t)

SpecThreads == InitThreads /\ [][NextThreads]_vars

\* the schema a single-threaded derivation of class_ produces
SingleThreaded(class_) == derive_fields(class_, decl, [c \in Classes |-> NoCache])

(* C25.  Under every interleaving of two first derivations of one class,   *)
(* both complete without error, and the schema each returns and the schema *)
(* cached on the class are the schema a single-threaded derivation gives.  *)
C25_BenignRace ==
    /\ \A t \in Threads :
           thr[t].pc = "done" =>
               /\ thr[t].err = "ok"
               /\ thr[t].fields = SingleThreaded(thr[t].class_).fields
    /\ \A c \in active :
           cache[c].cached => cache[c].fields = SingleThreaded(c).fields

-----------------------------------------------------------------------------
(* C26.  Only fields that are not required can be removed: after a         *)
(* successful construction and any assignments and deletions, every field  *)
(* whose FieldSpec is required has a value on the instance, and a deletion *)
(* of a required field is rejected.                                        *)
C26_RequiredPresent ==
    /\ [](x.live =>
              \A i \in 1..Len(cache[x.cls].fields) :
                  cache[x.cls].fields[i].is_required =>
                      cache[x.cls].fields[i].name \in DOMAIN x.store)
    /\ [][/\ last' # last /\ last'.op = "del"
          /\ last'.name \in Names(cache[x.cls].fields)
          /\ FieldOf(cache[x.cls].fields, last'.name).is_required
          => last'.err # "ok" /\ x' = x]_vars

-----------------------------------------------------------------------------
(* Duration arithmetic on dates.  A program adds a duration to a date of   *)
(* EpochYear, or subtracts it.                                             *)

MaxMonths == 25

DateInputs ==
    UNION {{[year |-> EpochYear, month |-> m, day |-> d] :
               d \in {1, DaysInMonth(EpochYear, m)}} : m \in 1..12}

DateDurationInputs ==
    [years : 0..MaxDur, months : 0..MaxMonths, weeks : 0..MaxDur, days : 0..MaxDur,
     hours : {0}, minutes : {0}, seconds : {0}]

InitDate ==
    /\ CalIdle
    /\ RecordIdle
    /\ ListIdle
    /\ IntIdle
    /\ IsoIdle
    /\ ThrIdle
    /\ OrdIdle

\* add_duration(ts, duration) for a datetime.date ts
AddDate(ts, duration) ==
    /\ cal.op = "none"
    /\ cal' = [op |-> "add", ts |-> ts, d |-> duration,
               first |-> first_of_month(ts, duration),
               result |-> add_duration_date(DayNumber(ts.year, ts.month, ts.day), duration)]
    /\ UNCHANGED <<recVars, listVars, intVars, isoVars, ordVars, thrVars>>

\* sub_duration(ts, duration) for a datetime.date ts: add_duration of the
\* negated components
SubDate(ts, duration) ==
    /\ cal.op = "none"
    /\ LET negative_duration ==
               [years |-> -duration.years, months |-> -duration.months,
                weeks |-> -duration.weeks, days |-> -duration.days,
                hours |-> -duration.hours, minutes |-> -duration.minutes,
                seconds |-> -duration.seconds]
       IN cal' = [op |-> "sub", ts |-> ts, d |-> negative_duration,
                  first |-> first_of_month(ts, negative_duration),
                  result |-> add_duration_date(DayNumber(ts.year, ts.month, ts.day),
                                               negative_duration)]
    /\ UNCHANGED <<recVars, listVars, intVars, isoVars, ordVars, thrVars>>

NextDate ==
    \E ts \in DateInputs, duration \in DateDurationInputs :
        \/ AddDate(ts, duration)
        \/ SubDate(ts, duration)

SpecDate == InitDate /\ [][NextDate]_vars

(* C27.  In duration arithmetic on a date of year y and month m, for year  *)
(* and month components dy and dm of either sign, the first-of-month date  *)
(* has a month m' in 1..12 and a year y' with                              *)
(* 12 * y' + (m' - 1) = 12 * (y + dy) + (m - 1) + dm, and the result is    *)
(* that date moved by the original day of month less one, the days and the *)
(* weeks of the duration.                                                  *)
C27_MonthCarry ==
    cal.op # "none" =>
        /\ cal.first.month \in 1..12
        /\ 12 * cal.first.year + (cal.first.month - 1) =
               12 * (cal.ts.year + cal.d.years) + (cal.ts.month - 1) + cal.d.months
        /\ cal.result =
               DayNumber(cal.first.year, cal.first.month, 1)
                   + (cal.ts.day - 1) + cal.d.days + 7 * cal.d.weeks

\* thirteen months were subtracted from a date of January: the month is
\* December of the year two years before
C27_Witness ==
    /\ cal.op = "sub"
    /\ cal.ts.month = 1 /\ cal.ts.day = 31
    /\ cal.d.years = 0 /\ cal.d.months = -13 /\ cal.d.days = 0 /\ cal.d.weeks = 0
    /\ cal.first = [year |-> EpochYear - 2, month |-> 12]
    /\ CalendarDate(cal.result) = [year |-> EpochYear - 2, month |-> 12, day |-> 31]

-----------------------------------------------------------------------------
(* The schema of a class and the history of derivations.                   *)

\* the schema class_ gets when it is the first class of the program to be used
FirstUseSchema(class_) ==
    derive_fields(class_, decl, [c \in Classes |-> NoCache]).fields

(* C28.  The schema cached for a class is the same whether or not any of   *)
(* its ancestors had been derived, and so carried a cached schema, when    *)
(* the class was first used: it is the schema the class gets when it is    *)
(* the first class of the program to be used.                              *)
C28_HistoryIndependent ==
    \A c \in active : cache[c].cached => cache[c].fields = FirstUseSchema(c)

(* C29.  A constructed Range keeps its invariant under every successful    *)
(* attribute assignment and deletion: at least one of lower_bound and      *)
(* upper_bound is set and, when both are set, lower_bound <= upper_bound.  *)
C29_RangeKeptInvariant ==
    x.live /\ x.cls = "Range" =>
        /\ "lower_bound" \in DOMAIN x.store \/ "upper_bound" \in DOMAIN x.store
        /\ "lower_bound" \in DOMAIN x.store /\ "upper_bound" \in DOMAIN x.store =>
               x.store["lower_bound"].n <= x.store["upper_bound"].n

\* the j-th annotation of class c is a Constant with no default to take
FailsAt(c, j) ==
    /\ annot[c][j].typ = "Constant"
    /\ decl[c][annot[c][j].name] \in {NoAttr, PyNone}

(* C30.  A schema derivation that fails part-way consumes nothing: a class *)
(* without a cached schema, whose derivations so far have all failed at a  *)
(* later field, still stores the defaults of the fields declared before    *)
(* that field, so that a later derivation classifies them by the same      *)
(* defaults.                                                               *)
C30_FailedDerivation ==
    \A c \in active :
        ~cache[c].cached =>
            \A k \in 1..Len(annot[c]) :
                FailsAt(c, k) =>
                    \A j \in 1..(k - 1) :
                        clsDict[c][annot[c][j].name] = decl[c][annot[c][j].name]

=============================================================================
